---- MODULE Spec2Model ----
(***************************************************************************)
(* A model of the quantitative analysis engine of aios.fund:               *)
(*   lib/quant-analysis  (src/components/StockCard.tsx in this tree)       *)
(*   lib/indicators      (src/lib/indicators.ts)                           *)
(*                                                                         *)
(* The functions are pure; each is an operator over exact numbers, and an  *)
(* action applies it to an input drawn by Init.                            *)
(*                                                                         *)
(* NUMBERS.  A JavaScript number is modelled exactly as a record           *)
(*     [k |-> "fin", a, b, r, d]   the real number (a + b*sqrt(r)) / d     *)
(*     [k |-> "nan"]               NaN                                     *)
(*     [k |-> "inf", a |-> +-1]    +Infinity / -Infinity                   *)
(* with d > 0, r squarefree, r = 1 iff b = 0, gcd(a,b,d) = 1.  Rational    *)
(* arithmetic and the square root of a rational are exact in this form;    *)
(* IEEE rounding error is not modelled, except by the double precision     *)
(* rendering of calculateMaxDrawdown further down.                         *)
(*                                                                         *)
(* The quant-analysis route (src/app/api/quant-analysis/route.ts), the     *)
(* PriceAlerts component (src/components/PriceAlerts.tsx) and              *)
(* recursivePrompt (src/lib/gemini-quant.ts) are state machines with one   *)
(* action per step between two awaits.                                     *)
(***************************************************************************)
EXTENDS Integers, Sequences, FiniteSets, TLC

VARIABLES
  pc,                   \* "call" before the function runs, then "done" or "thrown"
  fn,                   \* the function the caller applies
  priceDataArg,         \* the caller's price series: a sequence of samples
  financialMetricsArg,  \* the caller's fundamentals
  seriesArg,            \* the caller's numeric series (returns, or prices)
  result,               \* what the function returned
  body,                 \* the body of the request the route is serving
  response,             \* the response of the route, once it has one
  alerts,               \* PriceAlerts: the alerts state
  checking,             \* PriceAlerts: the checking state
  interval,             \* PriceAlerts: the timer of the interval effect and what its callback closed over
  checks,               \* PriceAlerts: the checkAlerts calls in flight
  adding,               \* PriceAlerts: the handleAddAlert call in flight
  storage,              \* localStorage 'priceAlerts'
  permission,           \* Notification.permission
  notifications,        \* per alert, the notifications shown since it was created or last reset
  previousContext,      \* recursivePrompt: the texts of the earlier iterations
  maxIterations,        \* recursivePrompt: its bound
  currentIteration,     \* recursivePrompt: the iteration running
  requests,             \* recursivePrompt: the axios.post calls made since the top-level call
  apiResponse           \* recursivePrompt: how the latest request ended

quantVars == <<pc, fn, priceDataArg, financialMetricsArg, seriesArg, result, body, response>>

alertVars == <<alerts, checking, interval, checks, adding, storage, permission, notifications>>

promptVars == <<previousContext, maxIterations, currentIteration, requests, apiResponse>>

vars == <<pc, fn, priceDataArg, financialMetricsArg, seriesArg, result, body, response,
          alerts, checking, interval, checks, adding, storage, permission, notifications,
          previousContext, maxIterations, currentIteration, requests, apiResponse>>

(* no request is being served: the functions are called directly *)
NoBody == [symbol |-> "", name |-> "", assetType |-> "", includeAI |-> FALSE,
           geminiApiKey |-> "", historicalData |-> <<>>]

NoResponse == [status |-> 0, error |-> "", success |-> FALSE, quantAnalysis |-> <<>>,
               aiAnalysis |-> "", aiError |-> ""]

(* no timer is set *)
NoInterval == [set |-> FALSE, alerts |-> <<>>, checking |-> FALSE]

(* no handleAddAlert call is in flight *)
NoAdding == [active |-> FALSE, alerts |-> <<>>]

(* no PriceAlerts component is rendered *)
NoPriceAlerts ==
  /\ alerts = <<>>
  /\ checking = FALSE
  /\ interval = NoInterval
  /\ checks = <<>>
  /\ adding = NoAdding
  /\ storage = <<>>
  /\ permission = "default"
  /\ notifications = <<>>

(* no request has been made *)
NoApiResponse == [kind |-> "none", text |-> <<>>]

(* recursivePrompt is not running *)
NoPrompt ==
  /\ previousContext = <<>>
  /\ maxIterations = 0
  /\ currentIteration = 0
  /\ requests = 0
  /\ apiResponse = NoApiResponse

----------------------------------------------------------------------------
(* Integer helpers *)

AbsI(n) == IF n < 0 THEN -n ELSE n

SgnI(n) == IF n > 0 THEN 1 ELSE IF n < 0 THEN -1 ELSE 0

RECURSIVE GCD(_, _)
GCD(m, n) == IF n = 0 THEN AbsI(m) ELSE GCD(n, m % AbsI(n))

(* <<s, m>> with n = s*s*m and m squarefree, searching factors from k up *)
RECURSIVE SquarePart(_, _)
SquarePart(n, k) ==
  LET Times(t) == <<k * t[1], t[2]>>
  IN IF k * k > n THEN <<1, n>>
     ELSE IF n % (k * k) = 0 THEN Times(SquarePart(n \div (k * k), k))
     ELSE SquarePart(n, k + 1)

----------------------------------------------------------------------------
(* Numbers *)

NaN == [k |-> "nan", a |-> 0, b |-> 0, r |-> 1, d |-> 1]

Infinity(s) == [k |-> "inf", a |-> s, b |-> 0, r |-> 1, d |-> 1]

(* (a + b*sqrt(r)) / d in normal form; d # 0 *)
Mk(a, b, r, d) ==
  LET Reduced(a1, b1, g, s) ==
        [k |-> "fin", a |-> s * (a1 \div g), b |-> s * (b1 \div g),
         r |-> IF b1 = 0 THEN 1 ELSE r, d |-> s * (d \div g)]
      Rational(a1, b1) ==
        Reduced(a1, b1, GCD(GCD(a1, b1), d), IF d < 0 THEN -1 ELSE 1)
  IN Rational(IF r = 1 THEN a + b ELSE a, IF r = 1 THEN 0 ELSE b)

Rat(n, d) == Mk(n, 0, 1, d)

Num(n) == Mk(n, 0, 1, 1)

IsNaN(x) == x.k = "nan"

IsFinite(x) == x.k = "fin"

(* Naturals beyond the checker's integers, as little-endian digits in base
   Limb: only to compare a*a with b*b*r exactly. *)
Limb == 64 * 64

RECURSIVE ToLimbs(_)
ToLimbs(n) == IF n = 0 THEN <<>> ELSE <<n % Limb>> \o ToLimbs(n \div Limb)

RECURSIVE Carry(_, _)
Carry(s, c) ==
  IF s = <<>> THEN ToLimbs(c)
  ELSE <<(Head(s) + c) % Limb>> \o Carry(Tail(s), (Head(s) + c) \div Limb)

LimbMul(x, y) ==
  IF x = <<>> \/ y = <<>> THEN <<>>
  ELSE LET Coef(k) ==
             LET f[i \in 0..Len(x)] ==
                   IF i = 0 THEN 0
                   ELSE f[i - 1] + (IF k + 1 - i \in 1..Len(y) THEN x[i] * y[k + 1 - i] ELSE 0)
             IN f[Len(x)]
       IN Carry([k \in 1..(Len(x) + Len(y) - 1) |-> Coef(k)], 0)

(* x > y for two digit sequences without leading zeros *)
RECURSIVE LimbGt(_, _)
LimbGt(x, y) ==
  IF Len(x) # Len(y) THEN Len(x) > Len(y)
  ELSE IF x = <<>> THEN FALSE
  ELSE IF x[Len(x)] # y[Len(y)] THEN x[Len(x)] > y[Len(y)]
  ELSE LimbGt(SubSeq(x, 1, Len(x) - 1), SubSeq(y, 1, Len(y) - 1))

(* a*a > b*b*r *)
SquareExceeds(a, b, r) ==
  LET Exceeds(la, lb) == LimbGt(LimbMul(la, la), LimbMul(LimbMul(lb, lb), ToLimbs(r)))
  IN Exceeds(ToLimbs(AbsI(a)), ToLimbs(AbsI(b)))

(* -1, 0 or 1: the sign of a number that is not NaN *)
Sign(x) ==
  IF x.k = "inf" THEN x.a
  ELSE IF x.b = 0 THEN SgnI(x.a)
  ELSE IF x.a = 0 THEN SgnI(x.b)
  ELSE IF SgnI(x.a) = SgnI(x.b) THEN SgnI(x.a)
  ELSE IF SquareExceeds(x.a, x.b, x.r) THEN SgnI(x.a) ELSE SgnI(x.b)

Neg(x) ==
  IF x.k = "nan" THEN NaN
  ELSE IF x.k = "inf" THEN Infinity(-x.a)
  ELSE Mk(-x.a, -x.b, x.r, x.d)

(* No value: evaluating it stops the check.  It stands where the exact form
   cannot hold the result (two different radicands in one sum), which no
   computation of the modelled code reaches. *)
Unrepresentable == CHOOSE v \in {} : TRUE

(* the radicand two finite numbers share (1 when both are rational) *)
Radicand(x, y) ==
  IF x.b # 0 /\ y.b # 0 /\ x.r # y.r THEN Unrepresentable
  ELSE IF x.b # 0 THEN x.r ELSE y.r

(* ROUNDING.  A sum whose exact form needs integers beyond the checker's
   (2^31) is taken of its operands rounded down to multiples of 1/Grid, as
   IEEE arithmetic rounds every result to 53 bits; every other result is
   exact.  Only sums of fractions with large coprime denominators round. *)
Grid == 100 * 1000

HalfRange == 16384 * 32768

RECURSIVE Grid10(_)
Grid10(digits) == IF digits = 0 THEN 1 ELSE 10 * Grid10(digits - 1)

(* m * n stays within half the checker's integers *)
MulFits(m, n) == m = 0 \/ n = 0 \/ AbsI(m) <= HalfRange \div AbsI(n)

(* floor(rem * 10^digits / d) for 0 <= rem < d, by long division *)
RECURSIVE FractionDigits(_, _, _)
FractionDigits(rem, d, digits) ==
  IF digits = 0 THEN 0
  ELSE ((rem * 10) \div d) * Grid10(digits - 1)
       + FractionDigits((rem * 10) % d, d, digits - 1)

(* floor(a * Grid / d) for d > 0 *)
FloorToGrid(a, d) == (a \div d) * Grid + FractionDigits(a % d, d, 5)

Coarse(x) == Mk(FloorToGrid(x.a, x.d), FloorToGrid(x.b, x.d), x.r, Grid)

(* x + y over the least common denominator, the multipliers given *)
AddOver(x, y, mx, my) ==
  Mk(x.a * mx + y.a * my, x.b * mx + y.b * my, Radicand(x, y), x.d * mx)

AddExact(x, y) == AddOver(x, y, y.d \div GCD(x.d, y.d), x.d \div GCD(x.d, y.d))

AddFits(x, y) ==
  LET Fits(mx, my) ==
        /\ MulFits(x.a, mx) /\ MulFits(y.a, my)
        /\ MulFits(x.b, mx) /\ MulFits(y.b, my)
        /\ MulFits(x.d, mx)
  IN Fits(y.d \div GCD(x.d, y.d), x.d \div GCD(x.d, y.d))

Add(x, y) ==
  LET Rounded(fits) ==
        AddExact(IF fits THEN x ELSE Coarse(x), IF fits THEN y ELSE Coarse(y))
  IN IF x.k = "nan" \/ y.k = "nan" THEN NaN
     ELSE IF x.k = "inf" /\ y.k = "inf" THEN (IF x.a = y.a THEN x ELSE NaN)
     ELSE IF x.k = "inf" THEN x
     ELSE IF y.k = "inf" THEN y
     ELSE Rounded(AddFits(x, y))

Sub(x, y) == Add(x, Neg(y))

Mul(x, y) ==
  LET Unbounded(sx, sy) == IF sx = 0 \/ sy = 0 THEN NaN ELSE Infinity(sx * sy)
      \* two pure radicals: sqrt(r1)*sqrt(r2) = t[1]*sqrt(t[2])
      Radicals(xb, xd, yb, yd, t) == Mk(0, xb * yb * t[1], t[2], xd * yd)
      Mixed(xa, xb, xd, ya, yb, yd, r) ==
        Mk(xa * ya + xb * yb * r, xa * yb + xb * ya, r, xd * yd)
      \* cancel across, by gx and gy, before multiplying
      Cancelled(gx, gy) ==
        IF x.a = 0 /\ y.a = 0 /\ x.r # y.r
        THEN Radicals(x.b \div gx, x.d \div gy, y.b \div gy, y.d \div gx,
                      SquarePart(x.r * y.r, 2))
        ELSE Mixed(x.a \div gx, x.b \div gx, x.d \div gy,
                   y.a \div gy, y.b \div gy, y.d \div gx, Radicand(x, y))
  IN IF x.k = "nan" \/ y.k = "nan" THEN NaN
     ELSE IF x.k = "inf" \/ y.k = "inf" THEN Unbounded(Sign(x), Sign(y))
     ELSE Cancelled(GCD(GCD(x.a, x.b), y.d), GCD(GCD(y.a, y.b), x.d))

(* 1/y for finite y # 0: d*(a - b*sqrt r) / (a*a - b*b*r) *)
Recip(y) == Mk(y.d * y.a, -(y.d * y.b), y.r, y.a * y.a - y.b * y.b * y.r)

Div(x, y) ==
  LET Quotient(sx, sy) ==
        IF x.k = "inf" THEN Infinity(IF sy < 0 THEN -x.a ELSE x.a)
        ELSE IF sy = 0 THEN (IF sx = 0 THEN NaN ELSE Infinity(sx))
        ELSE Mul(x, Recip(y))
  IN IF x.k = "nan" \/ y.k = "nan" THEN NaN
     ELSE IF y.k = "inf" THEN (IF x.k = "inf" THEN NaN ELSE Num(0))
     ELSE Quotient(Sign(x), Sign(y))

(* Math.sqrt of a rational (or NaN, or an infinity) *)
Sqrt(x) ==
  IF x.k = "nan" THEN NaN
  ELSE IF x.k = "inf" THEN (IF x.a > 0 THEN x ELSE NaN)
  ELSE IF x.b # 0 THEN Unrepresentable
  ELSE IF x.a < 0 THEN NaN
  ELSE IF x.a = 0 THEN Num(0)
  ELSE LET Root(t) == Mk(0, t[1], t[2], x.d) IN Root(SquarePart(x.a * x.d, 2))

Abs(x) == IF x.k = "nan" THEN NaN ELSE IF Sign(x) < 0 THEN Neg(x) ELSE x

(* the comparisons of JavaScript: false when either side is NaN *)
(* p/d < q/e for integers p, q and positive d, e, by exact cross products *)
RatLt(p, d, q, e) ==
  LET ProductGt(m, n, u, v) ==
        LimbGt(LimbMul(ToLimbs(m), ToLimbs(n)), LimbMul(ToLimbs(u), ToLimbs(v)))
  IN IF p < 0 /\ q >= 0 THEN TRUE
     ELSE IF p >= 0 /\ q < 0 THEN FALSE
     ELSE ProductGt(IF p >= 0 THEN q ELSE -p, IF p >= 0 THEN d ELSE e,
                    IF p >= 0 THEN p ELSE -q, IF p >= 0 THEN e ELSE d)

Lt(x, y) ==
  /\ x.k # "nan"
  /\ y.k # "nan"
  /\ x # y
  /\ IF x.k = "fin" /\ y.k = "fin" /\ x.b = 0 /\ y.b = 0
     THEN RatLt(x.a, x.d, y.a, y.d)
     ELSE Sign(Sub(x, y)) < 0

Gt(x, y) == Lt(y, x)

Eq(x, y) == x.k # "nan" /\ y.k # "nan" /\ x = y

Le(x, y) == Lt(x, y) \/ Eq(x, y)

Ge(x, y) == Le(y, x)

(* Math.max / Math.min of two numbers: NaN when either is NaN *)
Max(x, y) == IF x.k = "nan" \/ y.k = "nan" THEN NaN ELSE IF Lt(x, y) THEN y ELSE x

Min(x, y) == IF x.k = "nan" \/ y.k = "nan" THEN NaN ELSE IF Lt(y, x) THEN y ELSE x

(* Math.max(...s) and Math.min(...s) of a non-empty array *)
RECURSIVE MaxRange(_, _, _)
MaxRange(s, lo, hi) ==
  IF lo = hi THEN s[lo]
  ELSE Max(MaxRange(s, lo, (lo + hi) \div 2), MaxRange(s, (lo + hi) \div 2 + 1, hi))

MaxOf(s) == MaxRange(s, 1, Len(s))

RECURSIVE MinRange(_, _, _)
MinRange(s, lo, hi) ==
  IF lo = hi THEN s[lo]
  ELSE Min(MinRange(s, lo, (lo + hi) \div 2), MinRange(s, (lo + hi) \div 2 + 1, hi))

MinOf(s) == MinRange(s, 1, Len(s))

(* s.reduce((a, b) => a + b, 0); exact addition is associative, so the sum
   is taken by halves to keep the evaluation shallow *)
RECURSIVE SumRange(_, _, _)
SumRange(s, lo, hi) ==
  IF lo > hi THEN Num(0)
  ELSE IF lo = hi THEN s[lo]
  ELSE LET mid == (lo + hi) \div 2
       IN Add(SumRange(s, lo, mid), SumRange(s, mid + 1, hi))

Sum(s) == SumRange(s, 1, Len(s))

NumSeq(s) == [i \in 1..Len(s) |-> Num(s[i])]

(* [...data].sort((a, b) => a - b): a sorted copy, ascending *)
SortAsc(s) ==
  LET n == Len(s)
      \* the place of s[i] in the sorted copy: after every smaller element
      \* and after the equal ones that come before it
      place == [i \in 1..n |->
                  1 + Cardinality({j \in 1..n : Lt(s[j], s[i])})
                    + Cardinality({j \in 1..(i - 1) : s[j] = s[i]})]
  IN [k \in 1..n |-> s[CHOOSE i \in 1..n : place[i] = k]]

(* variant: data.sort((a, b) => a - b), the sort applied to the argument
   itself, so that `sorted` and `data` are one array *)
SortedInPlace(data) == [sorted |-> SortAsc(data), data |-> SortAsc(data)]

(* const sorted = [...data].sort((a, b) => a - b): the spread makes a new
   array and the sort reorders that one; `data` is the argument array as the
   statement leaves it *)
SortedCopy(data) == [sorted |-> SortAsc(data), data |-> data]

(* data.filter(pred) *)
Filter(s, Pred(_)) ==
  LET f[i \in 0..Len(s)] ==
        IF i = 0 THEN <<>>
        ELSE IF Pred(s[i]) THEN Append(f[i - 1], s[i]) ELSE f[i - 1]
  IN f[Len(s)]

(* sum of f(x) over the elements of s, left to right from 0 *)
SumOf(s, F(_)) == Sum([i \in 1..Len(s) |-> F(s[i])])

Square(x) == Mul(x, x)

Cube(x) == Mul(x, Mul(x, x))

(* x || 0 *)
OrZero(x) == IF x.k = "nan" THEN Num(0) ELSE x

----------------------------------------------------------------------------
(* lib/quant-analysis *)

SqrtTradingDays == Sqrt(Num(252))

RiskFreeRate == Rat(2, 100)

(* Math.round(val * 100) / 100; Math.round takes halves towards +Infinity *)
RoundToCents(val) ==
  IF val.k # "fin" THEN val
  ELSE IF val.b # 0 THEN Unrepresentable
  ELSE Rat(100 * (val.a \div val.d)
             + (200 * (val.a % val.d) + val.d) \div (2 * val.d), 100)

(* the elements of s, each once, in the order of their first occurrence *)
Distinct(s) ==
  LET f[i \in 0..Len(s)] ==
        IF i = 0 THEN <<>>
        ELSE IF \E j \in 1..(i - 1) : s[j] = s[i] THEN f[i - 1]
        ELSE Append(f[i - 1], s[i])
  IN f[Len(s)]

(* a property key that is an array index: the string of a non-negative
   integer *)
IsArrayIndex(key) == key.k = "fin" /\ key.b = 0 /\ key.d = 1 /\ key.a >= 0

IsNamedKey(key) == ~IsArrayIndex(key)

(* Object.keys(frequency): the array-index keys in ascending order, then
   the other keys in the order of their creation *)
FrequencyKeys(rounded) ==
  SortAsc(Distinct(Filter(rounded, IsArrayIndex)))
    \o Distinct(Filter(rounded, IsNamedKey))

(* frequency[key] *)
Frequency(rounded, key) == Cardinality({i \in 1..Len(rounded) : rounded[i] = key})

(* keys.reduce((a, b) => frequency[a] > frequency[b] ? a : b): the scan
   starts from the first key and keeps it only while it is strictly more
   frequent than the next *)
ModeScan(rounded, keys) ==
  LET f[i \in 1..Len(keys)] ==
        IF i = 1 THEN keys[1]
        ELSE IF Frequency(rounded, f[i - 1]) > Frequency(rounded, keys[i])
             THEN f[i - 1] ELSE keys[i]
  IN f[Len(keys)]

(* the mode of a non-empty series *)
Mode(data) ==
  LET Scan(rounded) == ModeScan(rounded, FrequencyKeys(rounded))
  IN Scan([i \in 1..Len(data) |-> RoundToCents(data[i])])

(* mean, median, mode, variance, stdDev, min, max, range of a series *)
calculateDescriptiveStats(data) ==
  LET n == Len(data)
      Stats(sorted, mean, variance) ==
        [mean |-> mean, mode |-> Mode(data),
         median |-> IF n % 2 = 0
                    THEN Div(Add(sorted[n \div 2], sorted[n \div 2 + 1]), Num(2))
                    ELSE sorted[n \div 2 + 1],
         stdDev |-> Sqrt(variance), variance |-> variance,
         min |-> sorted[1], max |-> sorted[n], range |-> Sub(sorted[n], sorted[1])]
      Spread(sorted, mean) ==
        Stats(sorted, mean,
              Div(Sum([i \in 1..n |-> Square(Sub(data[i], mean))]), Num(n)))
  IN IF n = 0
     THEN [mean |-> Num(0), median |-> Num(0), mode |-> Num(0), stdDev |-> Num(0),
           variance |-> Num(0), min |-> Num(0), max |-> Num(0), range |-> Num(0)]
     ELSE Spread(SortedCopy(data).sorted, Div(Sum(data), Num(n)))

calculateSkewness(data) ==
  LET n == Len(data)
      Skew(stats) ==
        Mul(Rat(n, (n - 1) * (n - 2)),
            Sum([i \in 1..n |-> Cube(Div(Sub(data[i], stats.mean), stats.stdDev))]))
  IN IF n < 3 THEN Num(0) ELSE Skew(calculateDescriptiveStats(data))

(* slope and intercept of the least-squares line of y on x *)
calculateLinearRegression(x, y) ==
  LET n == Len(x)
      Line(meanX, meanY, slope) ==
        [slope |-> slope, intercept |-> Sub(meanY, Mul(slope, meanX))]
      Slope(meanX, meanY, sumXY, sumX2) ==
        Line(meanX, meanY, IF Eq(sumX2, Num(0)) THEN Num(0) ELSE Div(sumXY, sumX2))
      About(meanX, meanY) ==
        Slope(meanX, meanY,
              Sum([i \in 1..n |-> Mul(Sub(x[i], meanX), Sub(y[i], meanY))]),
              Sum([i \in 1..n |-> Square(Sub(x[i], meanX))]))
  IN IF Len(x) # Len(y) \/ Len(x) < 2
     THEN [slope |-> Num(0), intercept |-> Num(0)]
     ELSE About(Div(Sum(x), Num(n)), Div(Sum(y), Num(n)))

(* simple returns; a step whose prior price is 0 is skipped *)
RECURSIVE calculateReturns(_)
calculateReturns(prices) ==
  IF Len(prices) < 2 THEN <<>>
  ELSE (IF ~Eq(prices[1], Num(0))
        THEN <<Div(Sub(prices[2], prices[1]), prices[1])>>
        ELSE <<>>) \o calculateReturns(Tail(prices))

calculateVolatility(returns, annualized) ==
  LET n == Len(returns)
      Scaled(stdDev) == IF annualized THEN Mul(stdDev, SqrtTradingDays) ELSE stdDev
      Deviation(mean) ==
        Scaled(Sqrt(Div(Sum([i \in 1..n |-> Square(Sub(returns[i], mean))]), Num(n))))
  IN IF n < 2 THEN Num(0) ELSE Deviation(Div(Sum(returns), Num(n)))

MaxI(m, n) == IF m > n THEN m ELSE n

(* variant: the peak test inverted, prices[i] < peak *)
IsNewPeakInverted(price, peak) == Lt(price, peak)

(* if (prices[i] > peak) *)
IsNewPeak(price, peak) == Gt(price, peak)

(* the loop body of calculateMaxDrawdown at index i (0-based, as in the code) *)
DrawdownStep(prices, i, st) ==
  LET price == prices[i + 1]
      last  == i = Len(prices) - 1
      Below(drawdown, start) ==
        [st EXCEPT !.drawdowns = Append(st.drawdowns, drawdown),
           !.maxDrawdown = Max(st.maxDrawdown, drawdown),
           !.currentDrawdownStart = start,
           !.currentDrawdown = IF last THEN drawdown ELSE st.currentDrawdown,
           !.maxDrawdownDuration =
              IF last THEN MaxI(st.maxDrawdownDuration, i - start)
              ELSE st.maxDrawdownDuration]
  IN IF IsNewPeak(price, st.peak)
     THEN [st EXCEPT !.peak = price, !.peakIndex = i,
             !.maxDrawdownDuration =
                IF st.currentDrawdownStart >= 0
                THEN MaxI(st.maxDrawdownDuration, i - st.currentDrawdownStart)
                ELSE st.maxDrawdownDuration,
             !.currentDrawdownStart = -1]
     ELSE Below(Div(Sub(st.peak, price), st.peak),
                IF st.currentDrawdownStart < 0 THEN st.peakIndex
                ELSE st.currentDrawdownStart)

RECURSIVE DrawdownLoop(_, _, _)
DrawdownLoop(prices, i, st) ==
  LET Continue(next) ==
        IF next = st THEN DrawdownLoop(prices, i + 1, st)
        ELSE DrawdownLoop(prices, i + 1, next)
  IN IF i >= Len(prices) THEN st ELSE Continue(DrawdownStep(prices, i, st))

calculateMaxDrawdown(prices) ==
  LET Summary(st) ==
        [maxDrawdown |-> st.maxDrawdown,
         maxDrawdownDuration |-> st.maxDrawdownDuration,
         currentDrawdown |-> st.currentDrawdown,
         averageDrawdown |-> IF Len(st.drawdowns) > 0
                             THEN Div(Sum(st.drawdowns), Num(Len(st.drawdowns)))
                             ELSE Num(0)]
  IN IF Len(prices) < 2
     THEN [maxDrawdown |-> Num(0), maxDrawdownDuration |-> 0,
           currentDrawdown |-> Num(0), averageDrawdown |-> Num(0)]
     ELSE Summary(DrawdownLoop(prices, 1,
                    [maxDrawdown |-> Num(0), maxDrawdownDuration |-> 0,
                     peak |-> prices[1], peakIndex |-> 0, currentDrawdown |-> Num(0),
                     drawdowns |-> <<>>, currentDrawdownStart |-> -1]))

(* Math.floor((1 - confidence) * n), the confidence given in percent *)
TailIndex(n, confidencePct) == ((100 - confidencePct) * n) \div 100

calculateVaR(returns, confidencePct) ==
  LET At(sorted, index) == Abs(OrZero(sorted[index + 1]))
  IN IF Len(returns) = 0 THEN Num(0)
     ELSE At(SortedCopy(returns).sorted, TailIndex(Len(returns), confidencePct))

calculateCVaR(returns, confidencePct) ==
  LET Mean(tailReturns) ==
        IF Len(tailReturns) > 0
        THEN Abs(Div(Sum(tailReturns), Num(Len(tailReturns))))
        ELSE Num(0)
      Tail95(sorted, varIndex) == Mean(SubSeq(sorted, 1, varIndex + 1))
  IN IF Len(returns) = 0 THEN Num(0)
     ELSE Tail95(SortedCopy(returns).sorted, TailIndex(Len(returns), confidencePct))

(* variant: no guard on a zero volatility *)
calculateSharpeRatioUnguarded(returns) ==
  IF Len(returns) < 2 THEN Num(0)
  ELSE Div(Sub(Mul(Div(Sum(returns), Num(Len(returns))), Num(252)), RiskFreeRate),
           calculateVolatility(returns, TRUE))

calculateSharpeRatio(returns) ==
  LET Ratio(meanReturn, volatility) ==
        IF Eq(volatility, Num(0)) THEN Num(0)
        ELSE Div(Sub(Mul(meanReturn, Num(252)), RiskFreeRate), volatility)
  IN IF Len(returns) < 2 THEN Num(0)
     ELSE Ratio(Div(Sum(returns), Num(Len(returns))), calculateVolatility(returns, TRUE))

IsNegative(v) == Lt(v, Num(0))

(* variant: the short-series guard of calculateSortinoRatio at length < 1 *)
SortinoTooShortOffByOne(returns) == Len(returns) < 1

(* if (returns.length < 2) return 0 *)
SortinoTooShort(returns) == Len(returns) < 2

calculateSortinoRatio(returns) ==
  LET Ratio(meanReturn, downsideDeviation) ==
        IF Eq(downsideDeviation, Num(0)) THEN Num(100)
        ELSE Div(Sub(Mul(meanReturn, Num(252)), RiskFreeRate), downsideDeviation)
      Downside(meanReturn, downsideReturns) ==
        IF Len(downsideReturns) = 0 THEN Num(100)
        ELSE Ratio(meanReturn,
                   Mul(Sqrt(Div(SumOf(downsideReturns, Square),
                                Num(Len(downsideReturns)))),
                       SqrtTradingDays))
  IN IF SortinoTooShort(returns) THEN Num(0)
     ELSE Downside(Div(Sum(returns), Num(Len(returns))), Filter(returns, IsNegative))

calculateCalmarRatio(returns, maxDrawdown) ==
  IF Eq(maxDrawdown, Num(0)) THEN Num(0)
  ELSE Div(Mul(Div(Sum(returns), Num(Len(returns))), Num(252)), maxDrawdown)

(* the reverse of a sorted copy: sort((a, b) => b - a) of distinct values *)
SortDesc(s) == [i \in 1..Len(s) |-> SortAsc(s)[Len(s) + 1 - i]]

(* variant: the array taken whole, not its first k elements *)
SliceFirstWhole(s, k) == s

(* array.slice(0, k) *)
SliceFirst(s, k) == IF Len(s) <= k THEN s ELSE SubSeq(s, 1, k)

(* currentPrice === Math.min(...windowPrices), the window being
   prices.slice(i - window, i + window + 1) around the 0-based index i *)
IsLocalMin(prices, i, window) ==
  Eq(prices[i + 1], MinOf(SubSeq(prices, i - window + 1, i + window + 1)))

IsLocalMax(prices, i, window) ==
  Eq(prices[i + 1], MaxOf(SubSeq(prices, i - window + 1, i + window + 1)))

(* the prices pushed by for (let i = window; i < prices.length - window; i++),
   in index order: the local minima when minima is TRUE, the local maxima
   otherwise *)
LocalLevels(prices, window, minima) ==
  LET f[i \in (window - 1)..(Len(prices) - window - 1)] ==
        IF i = window - 1 THEN <<>>
        ELSE IF (IF minima THEN IsLocalMin(prices, i, window)
                           ELSE IsLocalMax(prices, i, window))
             THEN Append(f[i - 1], prices[i + 1])
             ELSE f[i - 1]
  IN f[Len(prices) - window - 1]

identifySupportResistance(prices) ==
  IF Len(prices) < 20
  THEN [supportLevels |-> <<>>, resistanceLevels |-> <<>>]
  ELSE [supportLevels |->
          SliceFirst(SortAsc(Distinct(LocalLevels(prices, Len(prices) \div 10, TRUE))), 5),
        resistanceLevels |->
          SliceFirst(SortDesc(Distinct(LocalLevels(prices, Len(prices) \div 10, FALSE))), 5)]

(* an absent optional field *)
Undefined == [k |-> "undef", a |-> 0, b |-> 0, r |-> 1, d |-> 1]

(* the truthiness of an optional number: defined, not NaN, not 0 *)
Truthy(x) == x.k # "undef" /\ x.k # "nan" /\ ~(x.k = "fin" /\ Sign(x) = 0)

(* priceData[length - back].price when the series has at least back samples *)
PriceChangeOver(prices, back) ==
  IF Len(prices) >= back
  THEN Sub(prices[Len(prices)], prices[Len(prices) - back + 1])
  ELSE Num(0)

(* variant: a zero slope counted as neutral *)
TechnicalSignalZeroSlopeNeutral(slope, sharpeRatio, currentDrawdown, volumeRatio, priceChangePercent24h) ==
    (IF Gt(slope, Num(0)) THEN 30 ELSE IF Lt(slope, Num(0)) THEN -30 ELSE 0)
  + (IF Gt(sharpeRatio, Num(1)) THEN 20 ELSE IF Lt(sharpeRatio, Num(0)) THEN -20 ELSE 0)
  + (IF Lt(currentDrawdown, Rat(1, 10)) THEN 20
     ELSE IF Gt(currentDrawdown, Rat(3, 10)) THEN -20 ELSE 0)
  + (IF Gt(volumeRatio, Rat(12, 10)) THEN 20
     ELSE IF Lt(volumeRatio, Rat(8, 10)) THEN -20 ELSE 0)
  + (IF Gt(priceChangePercent24h, Num(5)) THEN 10
     ELSE IF Lt(priceChangePercent24h, Num(-5)) THEN -10 ELSE 0)

TechnicalSignal(slope, sharpeRatio, currentDrawdown, volumeRatio, priceChangePercent24h) ==
    (IF Gt(slope, Num(0)) THEN 30 ELSE -30)
  + (IF Gt(sharpeRatio, Num(1)) THEN 20 ELSE IF Lt(sharpeRatio, Num(0)) THEN -20 ELSE 0)
  + (IF Lt(currentDrawdown, Rat(1, 10)) THEN 20
     ELSE IF Gt(currentDrawdown, Rat(3, 10)) THEN -20 ELSE 0)
  + (IF Gt(volumeRatio, Rat(12, 10)) THEN 20
     ELSE IF Lt(volumeRatio, Rat(8, 10)) THEN -20 ELSE 0)
  + (IF Gt(priceChangePercent24h, Num(5)) THEN 10
     ELSE IF Lt(priceChangePercent24h, Num(-5)) THEN -10 ELSE 0)

(* variant: absent fundamentals count against the asset *)
FundamentalSignalAbsentPenalty(fm) ==
  IF fm.present
  THEN (IF Truthy(fm.peRatio) /\ Lt(fm.peRatio, Num(15)) THEN 20
        ELSE IF Truthy(fm.peRatio) /\ Gt(fm.peRatio, Num(30)) THEN -20 ELSE 0)
     + (IF Truthy(fm.profitMargin) /\ Gt(fm.profitMargin, Rat(15, 100)) THEN 20
        ELSE IF Truthy(fm.profitMargin) /\ Lt(fm.profitMargin, Num(0)) THEN -20 ELSE 0)
     + (IF Truthy(fm.revenueGrowth) /\ Gt(fm.revenueGrowth, Rat(1, 10)) THEN 20
        ELSE IF Truthy(fm.revenueGrowth) /\ Lt(fm.revenueGrowth, Num(0)) THEN -20 ELSE 0)
     + (IF Truthy(fm.debtToEquity) /\ Lt(fm.debtToEquity, Num(1)) THEN 10
        ELSE IF Truthy(fm.debtToEquity) /\ Gt(fm.debtToEquity, Num(2)) THEN -10 ELSE 0)
  ELSE -20

FundamentalSignal(fm) ==
  IF fm.present
  THEN (IF Truthy(fm.peRatio) /\ Lt(fm.peRatio, Num(15)) THEN 20
        ELSE IF Truthy(fm.peRatio) /\ Gt(fm.peRatio, Num(30)) THEN -20 ELSE 0)
     + (IF Truthy(fm.profitMargin) /\ Gt(fm.profitMargin, Rat(15, 100)) THEN 20
        ELSE IF Truthy(fm.profitMargin) /\ Lt(fm.profitMargin, Num(0)) THEN -20 ELSE 0)
     + (IF Truthy(fm.revenueGrowth) /\ Gt(fm.revenueGrowth, Rat(1, 10)) THEN 20
        ELSE IF Truthy(fm.revenueGrowth) /\ Lt(fm.revenueGrowth, Num(0)) THEN -20 ELSE 0)
     + (IF Truthy(fm.debtToEquity) /\ Lt(fm.debtToEquity, Num(1)) THEN 10
        ELSE IF Truthy(fm.debtToEquity) /\ Gt(fm.debtToEquity, Num(2)) THEN -10 ELSE 0)
  ELSE 0

(* Math.max(-100, Math.min(100, technicalSignal + fundamentalSignal)) *)
SignalStrength(technicalSignal, fundamentalSignal) ==
  LET sum == technicalSignal + fundamentalSignal
  IN IF sum > 100 THEN 100 ELSE IF sum < -100 THEN -100 ELSE sum

(* Math.min(100, Math.max(0, maxDrawdown*50 + annualizedVolatility*20 + var95*30)) *)
RiskScore(maxDrawdown, annualizedVolatility, var95) ==
  Min(Num(100), Max(Num(0),
      Add(Add(Mul(maxDrawdown, Num(50)), Mul(annualizedVolatility, Num(20))),
          Mul(var95, Num(30)))))

(* Math.min(95, Math.max(20, Math.abs(signalStrength))) *)
Confidence(signalStrength) ==
  LET m == AbsI(signalStrength)
  IN IF m < 20 THEN 20 ELSE IF m > 95 THEN 95 ELSE m

(* the buy threshold taken inclusive *)
TradingSignalsInclusiveBuy(signalStrength, technicalSignal, fundamentalSignal, riskScore) ==
  [signalStrength |-> signalStrength,
   buySignal |-> signalStrength >= 30,
   sellSignal |-> signalStrength < -30,
   holdSignal |-> signalStrength >= -30 /\ signalStrength <= 30,
   technicalSignal |-> technicalSignal,
   fundamentalSignal |-> fundamentalSignal,
   sentimentSignal |-> 0,
   riskSignal |-> Neg(riskScore),
   confidence |-> Confidence(signalStrength),
   warnings |-> IF Gt(riskScore, Num(70)) THEN <<"High risk detected">> ELSE <<>>]

TradingSignals(signalStrength, technicalSignal, fundamentalSignal, riskScore) ==
  [signalStrength |-> signalStrength,
   buySignal |-> signalStrength > 30,
   sellSignal |-> signalStrength < -30,
   holdSignal |-> signalStrength >= -30 /\ signalStrength <= 30,
   technicalSignal |-> technicalSignal,
   fundamentalSignal |-> fundamentalSignal,
   sentimentSignal |-> 0,
   riskSignal |-> Neg(riskScore),
   confidence |-> Confidence(signalStrength),
   warnings |-> IF Gt(riskScore, Num(70)) THEN <<"High risk detected">> ELSE <<>>]

(* a guard that lets a single sample through *)
InsufficientDataOffByOne(priceData) == Len(priceData) < 1

InsufficientData(priceData) == Len(priceData) < 2

(* priceData.map(d => d.volume || 0).filter(v => v > 0) keeps these *)
PositiveVolume(v) == Gt(v, Num(0))

(* the returned object; measures holds stats, skewness, linearRegression,
   volatility, risk, price and volume *)
AnalysisReport(context, prices, measures, technicalSignal, fundamentalSignal, signalStrength) ==
  [thrown |-> FALSE,
   symbol |-> "", name |-> "", assetType |-> context.assetType,
   \* financialMetrics || {}
   financialMetrics |-> [context.financialMetrics EXCEPT !.present = TRUE],
   statisticalAnalysis |->
     [mean |-> measures.stats.mean, median |-> measures.stats.median,
      mode |-> measures.stats.mode, stdDev |-> measures.stats.stdDev, variance |-> measures.stats.variance,
      skewness |-> measures.skewness,
      min |-> measures.stats.min, max |-> measures.stats.max,
      range |-> measures.stats.range,
      linearRegression |-> measures.linearRegression,
      volatility |-> measures.volatility,
      annualizedVolatility |-> measures.risk.annualizedVolatility],
   riskMetrics |-> measures.risk,
   patterns |-> identifySupportResistance(prices),
   tradingSignals |->
     TradingSignals(signalStrength, technicalSignal, fundamentalSignal,
                    measures.risk.overallRiskScore),
   priceAnalysis |->
     [currentPrice |-> prices[Len(prices)],
      priceChange24h |-> measures.price.priceChange24h,
      priceChangePercent24h |-> measures.price.priceChangePercent24h,
      priceChange7d |-> PriceChangeOver(prices, 7),
      priceChange30d |-> PriceChangeOver(prices, 30),
      priceChange90d |-> PriceChangeOver(prices, 90),
      priceChange1y |-> PriceChangeOver(prices, 252)],
   volumeAnalysis |-> measures.volume]

(* Trading Signals *)
AnalysisSignals(context, prices, measures, technicalSignal, fundamentalSignal) ==
  AnalysisReport(context, prices, measures, technicalSignal, fundamentalSignal,
                 SignalStrength(technicalSignal, fundamentalSignal))

(* technicalSignal and fundamentalSignal *)
AnalysisScored(context, prices, measures) ==
  AnalysisSignals(context, prices, measures,
                  TechnicalSignal(measures.linearRegression.slope,
                                  measures.risk.sharpeRatio,
                                  measures.risk.currentDrawdown,
                                  measures.volume.volumeRatio,
                                  measures.price.priceChangePercent24h),
                  FundamentalSignal(context.financialMetrics))

(* Risk Metrics and Risk Score (0-100) *)
AnalysisRisk(returns, volatility, annualizedVolatility, drawdowns, var95, cvar99) ==
  [volatility |-> volatility, annualizedVolatility |-> annualizedVolatility,
   maxDrawdown |-> drawdowns.maxDrawdown,
   maxDrawdownDuration |-> drawdowns.maxDrawdownDuration,
   currentDrawdown |-> drawdowns.currentDrawdown,
   averageDrawdown |-> drawdowns.averageDrawdown,
   var95 |-> var95, var99 |-> calculateVaR(returns, 99),
   cvar95 |-> calculateCVaR(returns, 95), cvar99 |-> cvar99,
   sharpeRatio |-> calculateSharpeRatio(returns),
   sortinoRatio |-> calculateSortinoRatio(returns),
   calmarRatio |-> calculateCalmarRatio(returns, drawdowns.maxDrawdown),
   tailRisk |-> cvar99,
   overallRiskScore |-> RiskScore(drawdowns.maxDrawdown, annualizedVolatility, var95)]

(* Price Analysis *)
AnalysisPrice(prices, priceChange24h) ==
  [priceChange24h |-> priceChange24h,
   priceChangePercent24h |->
     IF Len(prices) >= 2 /\ ~Eq(prices[Len(prices) - 1], Num(0))
     THEN Mul(Div(priceChange24h, prices[Len(prices) - 1]), Num(100))
     ELSE Num(0)]

(* Volume Analysis *)
AnalysisVolume(averageVolume, currentVolume) ==
  [averageVolume |-> averageVolume,
   volumeRatio |-> IF Gt(averageVolume, Num(0))
                   THEN Div(currentVolume, averageVolume) ELSE Num(1)]

(* Statistical Analysis, Volatility Analysis, Risk Metrics *)
AnalysisMeasured(context, prices, volumes, returns, drawdowns, volatility) ==
  AnalysisScored(context, prices,
    [stats |-> calculateDescriptiveStats(prices),
     skewness |-> calculateSkewness(returns),
     linearRegression |->
       calculateLinearRegression([i \in 1..Len(prices) |-> Num(i - 1)], prices),
     volatility |-> volatility,
     risk |-> AnalysisRisk(returns, volatility, calculateVolatility(returns, TRUE),
                           drawdowns, calculateVaR(returns, 95),
                           calculateCVaR(returns, 99)),
     price |-> AnalysisPrice(prices,
                             IF Len(prices) >= 2
                             THEN Sub(prices[Len(prices)], prices[Len(prices) - 1])
                             ELSE Num(0)),
     volume |-> AnalysisVolume(IF Len(volumes) > 0
                               THEN Div(Sum(volumes), Num(Len(volumes)))
                               ELSE Num(0),
                               IF Len(volumes) > 0
                               THEN volumes[Len(volumes)] ELSE Num(0))])

(* Max Drawdown and the daily volatility of the returns *)
AnalysisSeries(context, prices, volumes, returns) ==
  AnalysisMeasured(context, prices, volumes, returns, calculateMaxDrawdown(prices),
           calculateVolatility(returns, FALSE))

(* const returns = calculateReturns(prices) *)
AnalysisSamples(context, prices, volumes) ==
  AnalysisSeries(context, prices, volumes, calculateReturns(prices))

(* The analysis of a series of at least two samples: the fields of the result
   that the numeric pipeline above produces.  priceData is a sequence of
   [price, volume] (volume 0: absent), financialMetrics a record
   [present, peRatio, profitMargin, revenueGrowth, debtToEquity]; context
   carries financialMetrics and assetType through the stages. *)
Analyse(priceData, financialMetrics, assetType) ==
  LET n == Len(priceData)
  IN AnalysisSamples([financialMetrics |-> financialMetrics, assetType |-> assetType],
                      [i \in 1..n |-> Num(priceData[i].price)],
                      Filter([i \in 1..n |-> Num(priceData[i].volume)], PositiveVolume))

(* throws on fewer than two samples, else returns the analysis *)
performQuantitativeAnalysis(priceData, financialMetrics, assetType) ==
  IF InsufficientData(priceData)
  THEN [thrown |-> TRUE, message |-> "Insufficient data for quantitative analysis"]
  ELSE Analyse(priceData, financialMetrics, assetType)

----------------------------------------------------------------------------
(* lib/indicators *)

(* variant: the array taken whole, not its last k elements *)
SliceLastWhole(s, k) == s

(* array.slice(-k): the last k elements, the whole array when it is shorter *)
SliceLast(s, k) == IF Len(s) <= k THEN s ELSE SubSeq(s, Len(s) - k + 1, Len(s))

(* prices[prices.length - 1] || 0 *)
LastOrZero(s) == IF Len(s) = 0 THEN Num(0) ELSE OrZero(s[Len(s)])

(* variant: the loss side adds the signed change, not its absolute value *)
RSIStepSignedLoss(avg, c, keep, size) ==
  IF Gt(c, Num(0))
  THEN [gain |-> Div(Add(Mul(avg.gain, keep), c), size),
        loss |-> Div(Mul(avg.loss, keep), size)]
  ELSE [gain |-> Div(Mul(avg.gain, keep), size),
        loss |-> Div(Add(Mul(avg.loss, keep), c), size)]

(* one pass of the smoothing loop: the averages after the change c *)
RSIStep(avg, c, keep, size) ==
  IF Gt(c, Num(0))
  THEN [gain |-> Div(Add(Mul(avg.gain, keep), c), size),
        loss |-> Div(Mul(avg.loss, keep), size)]
  ELSE [gain |-> Div(Mul(avg.gain, keep), size),
        loss |-> Div(Add(Mul(avg.loss, keep), Abs(c)), size)]

(* the passes lo..hi of the loop, in order: the first half, then the second *)
RECURSIVE RSISmoothRange(_, _, _, _, _)
RSISmoothRange(changes, lo, hi, period, avg) ==
  IF lo > hi THEN avg
  ELSE IF lo = hi THEN RSIStep(avg, changes[lo], Num(period - 1), Num(period))
  ELSE LET Second(first) ==
             IF first = avg
             THEN RSISmoothRange(changes, (lo + hi) \div 2 + 1, hi, period, avg)
             ELSE RSISmoothRange(changes, (lo + hi) \div 2 + 1, hi, period, first)
       IN Second(RSISmoothRange(changes, lo, (lo + hi) \div 2, period, avg))

(* Wilder's smoothing of the average gain and loss over changes[i..] *)
RSISmooth(changes, i, period, avg) ==
  RSISmoothRange(changes, i, Len(changes), period, avg)

calculateRSI(prices, period) ==
  LET IsGain(c) == Gt(c, Num(0))
      NotGain(c) == ~Gt(c, Num(0))
      Index(avg) ==
        IF Eq(avg.loss, Num(0)) THEN Num(100)
        ELSE Sub(Num(100), Div(Num(100), Add(Num(1), Div(avg.gain, avg.loss))))
      Averaged(changes, first) ==
        Index(RSISmooth(changes, period + 1, period,
                [gain |-> Div(Sum(Filter(first, IsGain)), Num(period)),
                 loss |-> Div(SumOf(Filter(first, NotGain), Abs), Num(period))]))
      Changes(changes) == Averaged(changes, SubSeq(changes, 1, period))
  IN IF Len(prices) < period + 1 THEN Num(50)
     ELSE Changes([i \in 1..(Len(prices) - 1) |-> Sub(prices[i + 1], prices[i])])

(* variant: 0, not the last price, when there are fewer prices than the period *)
calculateSMAShortZero(prices, period) ==
  IF Len(prices) < period THEN Num(0)
  ELSE Div(Sum(SliceLast(prices, period)), Num(period))

(* the mean of the last period prices; the last price when there are fewer *)
calculateSMA(prices, period) ==
  IF Len(prices) < period THEN LastOrZero(prices)
  ELSE Div(Sum(SliceLast(prices, period)), Num(period))

(* the passes lo..hi of the loop ema = (prices[i] - ema) * multiplier + ema,
   in order: the first half, then the second *)
RECURSIVE EMAFoldRange(_, _, _, _, _)
EMAFoldRange(prices, lo, hi, multiplier, ema) ==
  IF lo > hi THEN ema
  ELSE IF lo = hi THEN Add(Mul(Sub(prices[lo], ema), multiplier), ema)
  ELSE LET Second(first) ==
             IF first.k = "nan" THEN NaN   \* NaN stays NaN through every later pass
             ELSE EMAFoldRange(prices, (lo + hi) \div 2 + 1, hi, multiplier, first)
       IN Second(EMAFoldRange(prices, lo, (lo + hi) \div 2, multiplier, ema))

EMAFold(prices, i, multiplier, ema) ==
  EMAFoldRange(prices, i, Len(prices), multiplier, ema)

calculateEMA(prices, period) ==
  IF Len(prices) < period THEN LastOrZero(prices)
  ELSE EMAFold(prices, period + 1, Rat(2, period + 1),
               Div(Sum(SubSeq(prices, 1, period)), Num(period)))

(* variant: the signal line of a single value taken as 0 *)
calculateMACDZeroSignal(prices) ==
  LET Line(macd) == [value |-> macd, signal |-> Num(0), histogram |-> Sub(macd, Num(0))]
  IN Line(Sub(calculateEMA(prices, 12), calculateEMA(prices, 26)))

calculateMACD(prices) ==
  LET Lines(macd, signal) ==
        [value |-> macd, signal |-> signal, histogram |-> Sub(macd, signal)]
      Line(macd) == Lines(macd, calculateEMA(<<macd>>, 9))
  IN Line(Sub(calculateEMA(prices, 12), calculateEMA(prices, 26)))

(* variant: bands at a fixed distance stdDev from the average *)
calculateBollingerBandsFixedWidth(prices, period, stdDev) ==
  LET Flat(last) == [upper |-> last, middle |-> last, lower |-> last]
      Around(sma) ==
        [upper |-> Add(sma, Num(stdDev)), middle |-> sma,
         lower |-> Sub(sma, Num(stdDev))]
  IN IF Len(prices) < period THEN Flat(LastOrZero(prices))
     ELSE Around(calculateSMA(prices, period))

calculateBollingerBands(prices, period, stdDev) ==
  LET Bands(sma, width) ==
        [upper |-> Add(sma, width), middle |-> sma, lower |-> Sub(sma, width)]
      Around(sma, slice) ==
        Bands(sma,
              Mul(Sqrt(Div(Sum([i \in 1..Len(slice) |-> Square(Sub(slice[i], sma))]),
                           Num(period))),
                  Num(stdDev)))
      Flat(last) == [upper |-> last, middle |-> last, lower |-> last]
  IN IF Len(prices) < period THEN Flat(LastOrZero(prices))
     ELSE Around(calculateSMA(prices, period), SliceLast(prices, period))

(* %K of the window of kPeriod samples ending at 0-based index i, in a
   one-element sequence; empty when the window is flat *)
StochasticKAt(highs, lows, closes, i, kPeriod) ==
  LET Within(hh, ll) ==
        IF ~Eq(hh, ll)
        THEN <<Mul(Div(Sub(closes[i + 1], ll), Sub(hh, ll)), Num(100))>>
        ELSE <<>>
  IN Within(MaxOf(SubSeq(highs, i - kPeriod + 2, i + 1)),
            MinOf(SubSeq(lows, i - kPeriod + 2, i + 1)))

RECURSIVE StochasticKValues(_, _, _, _, _)
StochasticKValues(highs, lows, closes, i, kPeriod) ==
  IF i >= Len(closes) THEN <<>>
  ELSE (IF i >= kPeriod - 1
        THEN StochasticKAt(highs, lows, closes, i, kPeriod) ELSE <<>>)
       \o StochasticKValues(highs, lows, closes, i + 1, kPeriod)

calculateStochastic(highs, lows, closes, kPeriod, dPeriod) ==
  LET Smoothed(k, kValues) ==
        [k |-> k,
         d |-> IF Len(kValues) > 0 THEN Div(Sum(kValues), Num(Len(kValues))) ELSE k]
      Within(highestHigh, lowestLow, currentClose) ==
        IF Eq(highestHigh, lowestLow) THEN [k |-> Num(50), d |-> Num(50)]
        ELSE Smoothed(Mul(Div(Sub(currentClose, lowestLow),
                              Sub(highestHigh, lowestLow)), Num(100)),
                      StochasticKValues(highs, lows, closes,
                                        Len(closes) - dPeriod, kPeriod))
  IN IF Len(closes) < kPeriod THEN [k |-> Num(50), d |-> Num(50)]
     ELSE Within(MaxOf(SliceLast(highs, kPeriod)), MinOf(SliceLast(lows, kPeriod)),
                 closes[Len(closes)])

calculateADX(highs, lows, closes, period) ==
  LET m == Len(closes) - 1
      TrueRange(i) ==
        Max(Max(Sub(highs[i + 1], lows[i + 1]), Abs(Sub(highs[i + 1], closes[i]))),
            Abs(Sub(lows[i + 1], closes[i])))
      PlusDM(i)  == IF Gt(highs[i + 1], highs[i])
                    THEN Sub(highs[i + 1], highs[i]) ELSE Num(0)
      MinusDM(i) == IF Lt(lows[i + 1], lows[i])
                    THEN Sub(lows[i], lows[i + 1]) ELSE Num(0)
      \* what the loop pushes on plusDMs and minusDMs
      Moves(plusDM, minusDM) ==
        IF Gt(plusDM, minusDM) THEN [plus |-> plusDM, minus |-> Num(0)]
        ELSE IF Gt(minusDM, plusDM) THEN [plus |-> Num(0), minus |-> minusDM]
        ELSE [plus |-> Num(0), minus |-> Num(0)]
      Index(dx) == IF IsNaN(dx) THEN Num(25) ELSE Min(Max(dx, Num(0)), Num(100))
      Directional(atr, plusDI, minusDI) ==
        IF Eq(atr, Num(0)) THEN Num(25)
        ELSE Index(Mul(Div(Abs(Sub(plusDI, minusDI)), Add(plusDI, minusDI)), Num(100)))
      Averaged(trueRanges, moves) ==
        IF Len(trueRanges) < period THEN Num(25)
        ELSE Directional(
               Div(Sum(SliceLast(trueRanges, period)), Num(period)),
               Div(Sum(SliceLast([i \in 1..m |-> moves[i].plus], period)), Num(period)),
               Div(Sum(SliceLast([i \in 1..m |-> moves[i].minus], period)), Num(period)))
  IN IF Len(highs) < period * 2 \/ Len(lows) < period * 2 \/ Len(closes) < period * 2
     THEN Num(25)
     ELSE Averaged([i \in 1..m |-> TrueRange(i)],
                   [i \in 1..m |-> Moves(PlusDM(i), MinusDM(i))])

(* d.high || d.price for an optional high (or low) *)
OrPrice(v, price) == IF Truthy(v) THEN v ELSE price

(* variant: the neutral result with the 200-day average left at 0 *)
NeutralIndicatorsZeroSMA200(lastPrice) ==
  [rsi |-> Num(50),
   macd |-> [value |-> Num(0), signal |-> Num(0), histogram |-> Num(0)],
   sma20 |-> lastPrice, sma50 |-> lastPrice, sma200 |-> Num(0),
   bollinger |-> [upper |-> lastPrice, middle |-> lastPrice, lower |-> lastPrice],
   stochastic |-> [k |-> Num(50), d |-> Num(50)],
   adx |-> Num(25),
   trend |-> "neutral", recommendation |-> "hold", confidence |-> Num(0)]

(* the neutral result for a history of fewer than 50 samples *)
NeutralIndicators(lastPrice) ==
  [rsi |-> Num(50),
   macd |-> [value |-> Num(0), signal |-> Num(0), histogram |-> Num(0)],
   sma20 |-> lastPrice, sma50 |-> lastPrice, sma200 |-> lastPrice,
   bollinger |-> [upper |-> lastPrice, middle |-> lastPrice, lower |-> lastPrice],
   stochastic |-> [k |-> Num(50), d |-> Num(50)],
   adx |-> Num(25),
   trend |-> "neutral", recommendation |-> "hold", confidence |-> Num(0)]

Trend(sma20, sma50, sma200, currentPrice) ==
  IF Gt(sma20, sma50) /\ Gt(sma50, sma200) /\ Gt(currentPrice, sma20) THEN "bullish"
  ELSE IF Lt(sma20, sma50) /\ Lt(sma50, sma200) /\ Lt(currentPrice, sma20) THEN "bearish"
  ELSE "neutral"

(* 1 when the rule votes, else 0 *)
Vote(b) == IF b THEN 1 ELSE 0

(* const maxSignals = 7 *)
maxSignals == 7

(* the returned object, with the confidence of the recommendation *)
IndicatorsResult(ind, trend, recommendation, buyScore, sellScore) ==
  [rsi |-> ind.rsi, macd |-> ind.macd, sma20 |-> ind.sma20, sma50 |-> ind.sma50,
   sma200 |-> ind.sma200, bollinger |-> ind.bollinger,
   stochastic |-> ind.stochastic, adx |-> ind.adx, trend |-> trend,
   recommendation |-> recommendation,
   confidence |->
     IF recommendation = "buy"
     THEN Min(Mul(Rat(buyScore, maxSignals), Num(100)), Num(95))
     ELSE IF recommendation = "sell"
     THEN Min(Mul(Rat(sellScore, maxSignals), Num(100)), Num(95))
     ELSE Max(Num(50 - AbsI(buyScore - sellScore) * 10), Num(20))]

(* the recommendation from the two vote counts *)
IndicatorsScored(ind, trend, buyScore, sellScore) ==
  IndicatorsResult(ind, trend,
         IF buyScore > sellScore /\ buyScore >= 2 THEN "buy"
         ELSE IF sellScore > buyScore /\ sellScore >= 2 THEN "sell"
         ELSE "hold",
         buyScore, sellScore)

(* buySignals and sellSignals: each rule is an if / else if, so the sell
   side votes only when the buy side did not *)
IndicatorsVoted(ind, trend, rsiBuy, macdBuy, maBuy, bollingerBuy, stochBuy, strong) ==
  IndicatorsScored(ind, trend,
           Vote(rsiBuy) + Vote(macdBuy) + Vote(trend = "bullish") + Vote(maBuy)
         + Vote(bollingerBuy) + Vote(stochBuy)
         + Vote(strong /\ trend = "bullish"),
           Vote(~rsiBuy /\ Gt(ind.rsi, Num(70)))
         + Vote(~macdBuy /\ Lt(ind.macd.histogram, Num(0))
                         /\ Lt(ind.macd.value, ind.macd.signal))
         + Vote(trend = "bearish")
         + Vote(~maBuy /\ Lt(ind.currentPrice, ind.sma20)
                       /\ Lt(ind.sma20, ind.sma50))
         + Vote(~bollingerBuy /\ Gt(ind.currentPrice, ind.bollinger.upper))
         + Vote(~stochBuy /\ Gt(ind.stochastic.k, Num(80))
                          /\ Gt(ind.stochastic.d, Num(80)))
         + Vote(strong /\ trend = "bearish"))

(* the trend and the buy side of each rule *)
IndicatorsMeasured(ind) ==
  IndicatorsVoted(ind, Trend(ind.sma20, ind.sma50, ind.sma200, ind.currentPrice),
        Lt(ind.rsi, Num(30)),
        Gt(ind.macd.histogram, Num(0)) /\ Gt(ind.macd.value, ind.macd.signal),
        Gt(ind.currentPrice, ind.sma20) /\ Gt(ind.sma20, ind.sma50),
        Lt(ind.currentPrice, ind.bollinger.lower),
        Lt(ind.stochastic.k, Num(20)) /\ Lt(ind.stochastic.d, Num(20)),
        Gt(ind.adx, Num(25)))

(* the indicators of the price, high and low series *)
IndicatorsRanged(prices, highs, lows) ==
  IndicatorsMeasured([currentPrice |-> prices[Len(prices)],
            rsi |-> calculateRSI(prices, 14),
            macd |-> calculateMACD(prices),
            sma20 |-> calculateSMA(prices, 20),
            sma50 |-> calculateSMA(prices, 50),
            sma200 |-> calculateSMA(prices, 200),
            bollinger |-> calculateBollingerBands(prices, 20, 2),
            stochastic |-> calculateStochastic(highs, lows, prices, 14, 3),
            adx |-> calculateADX(highs, lows, prices, 14)])

(* high and low as given, else estimated 2% around the price *)
IndicatorsPriced(historicalData, prices) ==
  IndicatorsRanged(prices,
         IF historicalData[1].high.k # "undef"
         THEN [i \in 1..Len(prices) |-> OrPrice(historicalData[i].high, prices[i])]
         ELSE [i \in 1..Len(prices) |-> Mul(prices[i], Rat(102, 100))],
         IF historicalData[1].low.k # "undef"
         THEN [i \in 1..Len(prices) |-> OrPrice(historicalData[i].low, prices[i])]
         ELSE [i \in 1..Len(prices) |-> Mul(prices[i], Rat(98, 100))])

(* historicalData: a sequence of [price, high, low], high and low optional *)
calculateIndicators(historicalData) ==
  LET n == Len(historicalData)
  IN IF n < 50
     THEN NeutralIndicators(IF n > 0 THEN historicalData[n].price ELSE Num(0))
     ELSE IndicatorsPriced(historicalData,
                           [i \in 1..n |-> historicalData[i].price])

----------------------------------------------------------------------------
(* The caller of performQuantitativeAnalysis *)

MaxSamples == 3

MaxPrice == 2

NoResult == [thrown |-> FALSE, none |-> TRUE]

VolumeShapes == {"absent", "rising", "falling"}

(* the volume of sample i of n: none reported, growing, or shrinking *)
VolumeAt(shape, i, n) ==
  IF shape = "absent" THEN 0 ELSE IF shape = "rising" THEN i ELSE n + 1 - i

PriceDataInputs ==
  UNION { { [i \in 1..n |-> [price |-> p[i], volume |-> VolumeAt(shape, i, n)]] :
              p \in [1..n -> 0..MaxPrice], shape \in VolumeShapes } :
          n \in 0..MaxSamples }

FinancialMetricsInputs ==
  { [present |-> FALSE, peRatio |-> Undefined, profitMargin |-> Undefined,
     revenueGrowth |-> Undefined, debtToEquity |-> Undefined] }
  \cup
  { fm \in [present : {TRUE},
             peRatio : {Undefined, Num(10), Num(40)},
             profitMargin : {Undefined, Rat(20, 100)},
             revenueGrowth : {Undefined, Rat(-10, 100)},
             debtToEquity : {Undefined, Rat(5, 10)}] :
      (fm.revenueGrowth = Undefined) <=> (fm.debtToEquity = Undefined) }

InitQuant ==
  /\ pc = "call"
  /\ fn = "none"
  /\ priceDataArg \in PriceDataInputs
  /\ financialMetricsArg \in FinancialMetricsInputs
  /\ seriesArg = <<>>
  /\ result = NoResult
  /\ body = NoBody
  /\ response = NoResponse
  /\ NoPriceAlerts
  /\ NoPrompt

(* const quantAnalysis = performQuantitativeAnalysis(priceData, financialMetrics, assetType) *)
PerformQuantitativeAnalysis ==
  /\ pc = "call"
  /\ fn' = "performQuantitativeAnalysis"
  /\ result' = performQuantitativeAnalysis(priceDataArg, financialMetricsArg, "stock")
  /\ pc' = IF result'.thrown THEN "thrown" ELSE "done"
  /\ UNCHANGED <<priceDataArg, financialMetricsArg, seriesArg, body, response, alertVars, promptVars>>

NextQuant == PerformQuantitativeAnalysis

SpecQuant == InitQuant /\ [][NextQuant]_vars

----------------------------------------------------------------------------
(* The caller of calculateIndicators *)

MaxHistory == 60

StartPrices == {100, 159}

Steps == {-1, 0, 1}

(* n samples moving from start by step a day; with high and low one unit
   around the price when the source reports them *)
History(n, start, step, withHighLow) ==
  [i \in 1..n |->
     LET p == start + step * (i - 1)
     IN IF withHighLow THEN [price |-> p, high |-> p + 1, low |-> p - 1]
        ELSE [price |-> p]]

(* the longest history for which calculateSMA(prices, 200) falls back *)
Below200 == 199

HistoryInputs ==
  { History(n, start, step, hl) :
      n \in (0..MaxHistory) \cup {Below200}, start \in StartPrices, step \in Steps,
      hl \in BOOLEAN }

(* the PricePoint of a stored sample *)
PricePoint(d) ==
  [price |-> Num(d.price),
   high |-> IF "high" \in DOMAIN d THEN Num(d.high) ELSE Undefined,
   low |-> IF "low" \in DOMAIN d THEN Num(d.low) ELSE Undefined]

InitInd ==
  /\ pc = "call"
  /\ fn = "none"
  /\ priceDataArg \in HistoryInputs
  /\ financialMetricsArg = <<>>
  /\ seriesArg = <<>>
  /\ result = NoResult
  /\ body = NoBody
  /\ response = NoResponse
  /\ NoPriceAlerts
  /\ NoPrompt

(* const calculated = calculateIndicators(history) *)
CalculateIndicators ==
  /\ pc = "call"
  /\ fn' = "calculateIndicators"
  /\ result' = calculateIndicators([i \in 1..Len(priceDataArg) |-> PricePoint(priceDataArg[i])])
  /\ pc' = "done"
  /\ UNCHANGED <<priceDataArg, financialMetricsArg, seriesArg, body, response, alertVars, promptVars>>

NextInd == CalculateIndicators

SpecInd == InitInd /\ [][NextInd]_vars

----------------------------------------------------------------------------
(* Callers of the statistical functions of lib/quant-analysis: seriesArg is
   a series of small integers, read as prices or data values in units and
   as daily returns in hundredths. *)

MaxSeries == 21

MaxValue == 2

(* the short lengths, where the guards act, and the longest, where the
   5% tail holds more than one return *)
SeriesLengths == (0..6) \cup {10} \cup ((MaxSeries - 2)..MaxSeries)

(* up to two free values, then one value repeated *)
PaddedSeries ==
  UNION { { [i \in 1..n |-> IF i <= k THEN pre[i] ELSE pad] :
              pre \in [1..k -> -MaxValue..MaxValue], pad \in -MaxValue..MaxValue } :
          n \in SeriesLengths, k \in 0..2 }

(* strictly ascending positive series *)
RampSeries ==
  { [i \in 1..n |-> start + step * (i - 1)] :
      n \in 2..MaxSeries, start \in 1..MaxValue, step \in 1..MaxValue }

SeriesInputs == PaddedSeries \cup RampSeries

Units(s) == [i \in 1..Len(s) |-> Num(s[i])]

Hundredths(s) == [i \in 1..Len(s) |-> Rat(s[i], 100)]

InitStat ==
  /\ pc = "call"
  /\ fn = "none"
  /\ priceDataArg = <<>>
  /\ financialMetricsArg = <<>>
  /\ seriesArg \in SeriesInputs
  /\ result = NoResult
  /\ body = NoBody
  /\ response = NoResponse
  /\ NoPriceAlerts
  /\ NoPrompt

(* the shape of every call below: apply, keep the value, return *)
Returns(name, value) ==
  /\ pc = "call"
  /\ fn' = name
  /\ result' = value
  /\ pc' = "done"
  /\ UNCHANGED <<priceDataArg, financialMetricsArg, seriesArg, body, response, alertVars, promptVars>>

CalculateVaR == Returns("calculateVaR", calculateVaR(Hundredths(seriesArg), 95))

CalculateCVaR == Returns("calculateCVaR", calculateCVaR(Hundredths(seriesArg), 95))

CalculateSortinoRatio ==
  Returns("calculateSortinoRatio", calculateSortinoRatio(Hundredths(seriesArg)))

CalculateSkewness == Returns("calculateSkewness", calculateSkewness(Units(seriesArg)))

CalculateMaxDrawdown ==
  Returns("calculateMaxDrawdown", calculateMaxDrawdown(Units(seriesArg)))

NextStat ==
  \/ CalculateVaR
  \/ CalculateCVaR
  \/ CalculateSortinoRatio
  \/ CalculateSkewness
  \/ CalculateMaxDrawdown

SpecStat == InitStat /\ [][NextStat]_vars

----------------------------------------------------------------------------
(* Callers of calculateRSI and calculateADX: seriesArg is a series of
   closing prices, flat up to its last three samples. *)

MaxTech == 28

(* period = 14 is the default; the short periods reach the smoothing loop
   and the directional averages on short series *)
Periods == {2, 3, 14}

(* around the two thresholds of period 14: period + 1 and 2 * period *)
TechLengths == (0..6) \cup {14, 15} \cup {MaxTech - 1, MaxTech}

MinI(m, n) == IF m < n THEN m ELSE n

(* one price repeated, then up to three free prices *)
TechSeries ==
  UNION { { [i \in 1..n |-> IF i > n - MinI(n, 3) THEN tail[i - (n - MinI(n, 3))]
                            ELSE pad] :
              tail \in [1..MinI(n, 3) -> 0..MaxValue], pad \in 0..MaxValue } :
          n \in TechLengths }

(* highs and lows lie spread around the close *)
Spreads == {0, 1}

Shifted(s, by) == [i \in 1..Len(s) |-> Num(s[i] + by)]

InitTech ==
  /\ pc = "call"
  /\ fn = "none"
  /\ priceDataArg = <<>>
  /\ financialMetricsArg = <<>>
  /\ seriesArg \in TechSeries
  /\ result = NoResult
  /\ body = NoBody
  /\ response = NoResponse
  /\ NoPriceAlerts
  /\ NoPrompt

CalculateRSI ==
  \E period \in Periods :
    Returns("calculateRSI",
            [period |-> period, value |-> calculateRSI(Units(seriesArg), period)])

CalculateADX ==
  \E period \in Periods, spread \in Spreads :
    Returns("calculateADX",
            [period |-> period, spread |-> spread,
             value |-> calculateADX(Shifted(seriesArg, spread),
                                    Shifted(seriesArg, -spread),
                                    Units(seriesArg), period)])

NextTech ==
  \/ CalculateRSI
  \/ CalculateADX

SpecTech == InitTech /\ [][NextTech]_vars

----------------------------------------------------------------------------
(* performQuantitativeAnalysis and calculateIndicators on the same history:
   flat series of every length, and short series that double each day (equal
   non-zero returns).  No volume, no fundamentals. *)

FlatPrices == {1, 100}

MaxDoubling == 5

SteadyInputs ==
  { [i \in 1..n |-> [price |-> p, volume |-> 0]] :
      n \in 0..MaxHistory, p \in FlatPrices }
  \cup
  { [i \in 1..n |-> [price |-> 2 ^ (i - 1), volume |-> 0]] : n \in 2..MaxDoubling }

NoFinancialMetrics ==
  [present |-> FALSE, peRatio |-> Undefined, profitMargin |-> Undefined,
   revenueGrowth |-> Undefined, debtToEquity |-> Undefined]

InitSteady ==
  /\ pc = "call"
  /\ fn = "none"
  /\ priceDataArg \in SteadyInputs
  /\ financialMetricsArg = NoFinancialMetrics
  /\ seriesArg = <<>>
  /\ result = NoResult
  /\ body = NoBody
  /\ response = NoResponse
  /\ NoPriceAlerts
  /\ NoPrompt

NextSteady ==
  \/ PerformQuantitativeAnalysis
  \/ CalculateIndicators

SpecSteady == InitSteady /\ [][NextSteady]_vars

----------------------------------------------------------------------------
(* calculateIndicators on a history and on the same history with every price
   multiplied by k: histories without high and low, flat up to their last
   three samples, of 50 samples and of enough samples for the 200-day
   average. *)

MaxScale == 200

ScaleLengths == {50, MaxScale}

ScalePrices == 1..3

Factors == {Num(3), Rat(1, 2)}

ScaleInputs ==
  { [i \in 1..n |-> [price |-> IF i > n - 3 THEN tail[i - (n - 3)] ELSE pad]] :
      n \in ScaleLengths, tail \in [1..3 -> ScalePrices], pad \in ScalePrices }

(* every price of the history times k *)
ScaledBy(h, k) ==
  [i \in 1..Len(h) |-> [price |-> Mul(Num(h[i].price), k),
                        high |-> Undefined, low |-> Undefined]]

InitScale ==
  /\ pc = "call"
  /\ fn = "none"
  /\ priceDataArg \in ScaleInputs
  /\ financialMetricsArg = <<>>
  /\ seriesArg = <<>>
  /\ result = NoResult
  /\ body = NoBody
  /\ response = NoResponse
  /\ NoPriceAlerts
  /\ NoPrompt

CalculateIndicatorsScaled ==
  \E k \in Factors :
    Returns("calculateIndicators",
            [k |-> k,
             base |-> calculateIndicators(ScaledBy(priceDataArg, Num(1))),
             scaled |-> calculateIndicators(ScaledBy(priceDataArg, k))])

NextScale == CalculateIndicatorsScaled

SpecScale == InitScale /\ [][NextScale]_vars

----------------------------------------------------------------------------
(* The caller of performQuantitativeAnalysis on the lengths the price
   analysis distinguishes: a price held for all samples but the last, then
   the current price.  No volume, no fundamentals. *)

MaxDays == 31

ChangeLengths == (0..8) \cup ((MaxDays - 2)..MaxDays)

HeldPrices == {1, 2, 5}

CurrentPrices == {1, 3, 6}

ChangeInputs ==
  { [i \in 1..n |-> [price |-> IF i < n THEN held ELSE current, volume |-> 0]] :
      n \in ChangeLengths, held \in HeldPrices, current \in CurrentPrices }

InitChange ==
  /\ pc = "call"
  /\ fn = "none"
  /\ priceDataArg \in ChangeInputs
  /\ financialMetricsArg = NoFinancialMetrics
  /\ seriesArg = <<>>
  /\ result = NoResult
  /\ body = NoBody
  /\ response = NoResponse
  /\ NoPriceAlerts
  /\ NoPrompt

NextChange == PerformQuantitativeAnalysis

SpecChange == InitChange /\ [][NextChange]_vars

----------------------------------------------------------------------------
(* The caller of calculateDescriptiveStats on short series of values given
   in quarters of a cent: values within a cent of 1, which rounding to 2
   decimals collapses onto 0.99, 1 and 1.01, or whole values 1, 2, 3. *)

MaxModeLen == 3

NearOne == {397, 399, 400, 401, 403}

WholeValues == {400, 800, 1200}

ModeInputs ==
  UNION { [1..n -> NearOne] \cup [1..n -> WholeValues] : n \in 0..MaxModeLen }

QuarterCents(s) == [i \in 1..Len(s) |-> Rat(s[i], 400)]

InitMode ==
  /\ pc = "call"
  /\ fn = "none"
  /\ priceDataArg = <<>>
  /\ financialMetricsArg = NoFinancialMetrics
  /\ seriesArg \in ModeInputs
  /\ result = NoResult
  /\ body = NoBody
  /\ response = NoResponse
  /\ NoPriceAlerts
  /\ NoPrompt

CalculateDescriptiveStats ==
  Returns("calculateDescriptiveStats", calculateDescriptiveStats(QuarterCents(seriesArg)))

NextMode == CalculateDescriptiveStats

SpecMode == InitMode /\ [][NextMode]_vars

----------------------------------------------------------------------------
(* Callers that keep their array.  A call hands the function a reference to
   the caller's array; the result below holds, next to the function's value,
   the elements of that array as the caller had them before the call and as
   the call leaves them.  priceDataArg is the array handed to
   performQuantitativeAnalysis, seriesArg the one handed to the others. *)

FrameCalls ==
  {"calculateDescriptiveStats", "calculateVaR", "calculateCVaR",
   "calculateMaxDrawdown", "identifySupportResistance", "performQuantitativeAnalysis"}

(* the argument array after the call: the three sorting functions return
   early on an empty array and otherwise run the sort statement; every
   other access of the six functions is a read (index, length, map, slice,
   reduce, forEach, filter, spread) *)
ArgumentAfter(name, argument) ==
  IF name \in {"calculateDescriptiveStats", "calculateVaR", "calculateCVaR"}
     /\ Len(argument) # 0
  THEN SortedCopy(argument).data
  ELSE argument

Keeps(name, argument, value) ==
  Returns(name, [before |-> argument, after |-> ArgumentAfter(name, argument),
                 value |-> value])

(* series of 20 and more prices with a low at every third place and highs
   between, the lows and the highs taking several different values *)
WaveSeries ==
  { [i \in 1..n |-> IF i % 3 = 0 THEN -((m * (i \div 3) + c) % 7)
                    ELSE 10 + ((m * i + c) % 5)] :
      n \in 20..MaxSeries, m \in 1..3, c \in 0..6 }

InitFrame ==
  /\ pc = "call"
  /\ fn = "none"
  /\ \/ priceDataArg \in PriceDataInputs /\ seriesArg = <<>>
     \/ priceDataArg = <<>> /\ seriesArg \in SeriesInputs \cup WaveSeries
  /\ financialMetricsArg = NoFinancialMetrics
  /\ result = NoResult
  /\ body = NoBody
  /\ response = NoResponse
  /\ NoPriceAlerts
  /\ NoPrompt

CallCalculateDescriptiveStats ==
  Keeps("calculateDescriptiveStats", Units(seriesArg),
        calculateDescriptiveStats(Units(seriesArg)))

CallCalculateVaR ==
  Keeps("calculateVaR", Hundredths(seriesArg), calculateVaR(Hundredths(seriesArg), 95))

CallCalculateCVaR ==
  Keeps("calculateCVaR", Hundredths(seriesArg), calculateCVaR(Hundredths(seriesArg), 95))

CallCalculateMaxDrawdown ==
  Keeps("calculateMaxDrawdown", Units(seriesArg), calculateMaxDrawdown(Units(seriesArg)))

CallIdentifySupportResistance ==
  Keeps("identifySupportResistance", Units(seriesArg),
        identifySupportResistance(Units(seriesArg)))

CallPerformQuantitativeAnalysis ==
  Keeps("performQuantitativeAnalysis", priceDataArg,
        performQuantitativeAnalysis(priceDataArg, financialMetricsArg, "stock"))

NextFrame ==
  \/ CallCalculateDescriptiveStats
  \/ CallCalculateVaR
  \/ CallCalculateCVaR
  \/ CallCalculateMaxDrawdown
  \/ CallIdentifySupportResistance
  \/ CallPerformQuantitativeAnalysis

SpecFrame == InitFrame /\ [][NextFrame]_vars

----------------------------------------------------------------------------
(* app/api/quant-analysis/route: POST.  pc is the place of the handler
   between its awaits and statements; result is its quantAnalysis. *)

Symbols == {"", "BTC"}

Names == {"", "Bitcoin"}

AssetTypes == {"", "stock", "crypto"}

ApiKeys == {"", "key"}

Sample(price) == [price |-> price, volume |-> 0]

(* historicalData of the body: absent or empty, one sample, two samples *)
RouteHistories ==
  {<<>>, <<Sample(1)>>, <<Sample(1), Sample(2)>>, <<Sample(2), Sample(1)>>}

(* what getStockHistory / getCryptoHistory resolve with: both catch their
   own errors and resolve with [] *)
FetchedHistories == {<<>>, <<Sample(2)>>, <<Sample(2), Sample(2), Sample(1)>>}

(* financialMetrics = {} *)
EmptyMetrics ==
  [present |-> TRUE, peRatio |-> Undefined, profitMargin |-> Undefined,
   revenueGrowth |-> Undefined, debtToEquity |-> Undefined]

(* what getStockFinancials resolves with *)
StockFinancials ==
  {EmptyMetrics, [EmptyMetrics EXCEPT !.peRatio = Num(10), !.profitMargin = Rat(20, 100)]}

Bodies ==
  [symbol : Symbols, name : Names, assetType : AssetTypes, includeAI : BOOLEAN,
   geminiApiKey : ApiKeys, historicalData : RouteHistories]

InitRoute ==
  /\ pc = "request"
  /\ fn = "POST"
  /\ body \in Bodies
  /\ priceDataArg = <<>>
  /\ financialMetricsArg = NoFinancialMetrics
  /\ seriesArg = <<>>
  /\ result = NoResult
  /\ response = NoResponse
  /\ NoPriceAlerts
  /\ NoPrompt

(* NextResponse.json({ error }, { status }) *)
ErrorResponse(status, error) == [NoResponse EXCEPT !.status = status, !.error = error]

(* NextResponse.json({ success: true, quantAnalysis, aiAnalysis / aiError }) *)
SuccessResponse(quantAnalysis, aiAnalysis, aiError) ==
  [NoResponse EXCEPT !.status = 200, !.success = TRUE, !.quantAnalysis = quantAnalysis,
                     !.aiAnalysis = aiAnalysis, !.aiError = aiError]

Responds(r) ==
  /\ response' = r
  /\ pc' = "responded"

(* if (!symbol || !assetType) ...; let priceData = historicalData || [] *)
Validate ==
  /\ pc = "request"
  /\ IF body.symbol = "" \/ body.assetType = ""
     THEN /\ Responds(ErrorResponse(400, "Symbol and assetType are required"))
          /\ UNCHANGED priceDataArg
     ELSE /\ priceDataArg' = body.historicalData
          /\ pc' = "history"
          /\ UNCHANGED response
  /\ UNCHANGED <<fn, financialMetricsArg, seriesArg, result, body, alertVars, promptVars>>

(* if (priceData.length === 0): the history is fetched; getStockHistory and
   getCryptoHistory do not reject (src/lib/api.ts), so neither the outer
   catch nor the two around the crypto fetch are entered from here *)
LoadHistory ==
  /\ pc = "history"
  /\ IF Len(priceDataArg) # 0
     THEN UNCHANGED priceDataArg
     ELSE priceDataArg' \in FetchedHistories
  /\ pc' = "loaded"
  /\ UNCHANGED <<fn, financialMetricsArg, seriesArg, result, body, response, alertVars, promptVars>>

(* if (priceData.length < 2) *)
CheckHistory ==
  /\ pc = "loaded"
  /\ IF Len(priceDataArg) < 2
     THEN Responds(ErrorResponse(400, "Insufficient historical data for analysis"))
     ELSE pc' = "fetching" /\ UNCHANGED response
  /\ UNCHANGED <<fn, priceDataArg, financialMetricsArg, seriesArg, result, body, alertVars, promptVars>>

(* the try around getStockFinancials / getCryptoMetrics: a failure leaves {} ;
   of the crypto metrics only marketCap is kept *)
FetchFinancials ==
  /\ pc = "fetching"
  /\ financialMetricsArg' \in
       IF body.assetType = "stock" THEN StockFinancials ELSE {EmptyMetrics}
  /\ pc' = "metrics"
  /\ UNCHANGED <<fn, priceDataArg, seriesArg, result, body, response, alertVars, promptVars>>

(* const quantAnalysis = performQuantitativeAnalysis(...); a throw reaches
   the outer catch *)
RouteAnalysis ==
  /\ pc = "metrics"
  /\ result' = performQuantitativeAnalysis(priceDataArg, financialMetricsArg, body.assetType)
  /\ IF result'.thrown
     THEN Responds(ErrorResponse(500, result'.message))
     ELSE pc' = "analysed" /\ UNCHANGED response
  /\ UNCHANGED <<fn, priceDataArg, financialMetricsArg, seriesArg, body, alertVars, promptVars>>

(* variant: the symbol stored in the assetType field *)
WithSymbolInAssetType(quantAnalysis, symbol) == [quantAnalysis EXCEPT !.assetType = symbol]

(* quantAnalysis.symbol = symbol *)
WithSymbol(quantAnalysis, symbol) == [quantAnalysis EXCEPT !.symbol = symbol]

(* quantAnalysis.name = name || symbol *)
WithName(quantAnalysis, name, symbol) ==
  [quantAnalysis EXCEPT !.name = IF name # "" THEN name ELSE symbol]

UpdateSymbol ==
  /\ pc = "analysed"
  /\ result' = WithSymbol(result, body.symbol)
  /\ pc' = "symbol"
  /\ UNCHANGED <<fn, priceDataArg, financialMetricsArg, seriesArg, body, response, alertVars, promptVars>>

UpdateName ==
  /\ pc = "symbol"
  /\ result' = WithName(result, body.name, body.symbol)
  /\ pc' = "named"
  /\ UNCHANGED <<fn, priceDataArg, financialMetricsArg, seriesArg, body, response, alertVars, promptVars>>

(* variant: the failure of the AI analysis reported as an error *)
AIFailedAsError(quantAnalysis, message) == ErrorResponse(500, message)

(* catch (aiError): { success: true, quantAnalysis, aiError: aiError.message } *)
AIFailed(quantAnalysis, message) == SuccessResponse(quantAnalysis, "", message)

(* if (includeAI && geminiApiKey): performRecursiveQuantAnalysis reads the
   quantAnalysis and resolves or rejects; either way, and without it, the
   route responds with the quantAnalysis *)
Respond ==
  /\ pc = "named"
  /\ IF body.includeAI /\ body.geminiApiKey # ""
     THEN \/ Responds(SuccessResponse(result, "aiAnalysis", ""))
          \/ Responds(AIFailed(result, "aiError"))
     ELSE Responds(SuccessResponse(result, "", ""))
  /\ UNCHANGED <<fn, priceDataArg, financialMetricsArg, seriesArg, result, body, alertVars, promptVars>>

NextRoute ==
  \/ Validate
  \/ LoadHistory
  \/ CheckHistory
  \/ FetchFinancials
  \/ RouteAnalysis
  \/ UpdateSymbol
  \/ UpdateName
  \/ Respond

SpecRoute == InitRoute /\ [][NextRoute]_vars

----------------------------------------------------------------------------
(* calculateMaxDrawdown in double precision.  The exact numbers above do
   not round; here a positive double is the record [bits, e] of its 53
   binary digits, the first of them 1, and the exponent of the last, so
   that its value is bits * 2^e; zero has no digits.  The prices are
   integers, which are doubles themselves and whose differences are exact;
   the quotient, the sum and the mean are rounded to nearest, ties to even,
   as the JavaScript operators / and + round. *)

Precision == 53

DoubleZero == [bits |-> <<>>, e |-> 0]

(* the digits are handled ChunkBits at a time *)
ChunkBits == 10

Chunk == 1024

RECURSIVE BitsValue(_)
BitsValue(bits) ==
  IF Len(bits) = 0 THEN 0
  ELSE 2 * BitsValue(SubSeq(bits, 1, Len(bits) - 1)) + bits[Len(bits)]

RECURSIVE Pow2(_)
Pow2(k) == IF k = 0 THEN 1 ELSE 2 * Pow2(k - 1)

(* the last width binary digits of v *)
ValueBits(v, width) == [i \in 1..width |-> (v \div Pow2(width - i)) % 2]

Zeros(k) == [i \in 1..k |-> 0]

(* bits without its leading zeros *)
Significant(bits) ==
  LET ones == { i \in 1..Len(bits) : bits[i] = 1 }
      first == CHOOSE i \in ones : \A j \in ones : i <= j
  IN IF ones = {} THEN <<>> ELSE SubSeq(bits, first, Len(bits))

(* the binary digits of an integer 0 <= n < Chunk * Chunk *)
ToBits(n) == Significant(ValueBits(n, 2 * ChunkBits))

Front(bits) == SubSeq(bits, 1, Len(bits) - 1)

(* bits + 1, one digit longer when every digit was 1 *)
Increment(bits) ==
  LET Carried(i) == \A j \in (i + 1)..Len(bits) : bits[j] = 1
      low == [i \in 1..Len(bits) |-> IF Carried(i) THEN 1 - bits[i] ELSE bits[i]]
  IN IF \A j \in 1..Len(bits) : bits[j] = 1 THEN <<1>> \o low ELSE low

(* the double nearest to bits * 2^e, bits holding Precision digits or more
   and starting with 1; sticky says that the exact value lies above
   bits * 2^e, by less than 2^e *)
RoundNearestEven(bits, e, sticky) ==
  LET k == Len(bits) - Precision
      kept == SubSeq(bits, 1, Precision)
      beyondHalf == sticky \/ \E i \in (Precision + 2)..Len(bits) : bits[i] = 1
      up == k >= 1 /\ bits[Precision + 1] = 1 /\ (beyondHalf \/ kept[Precision] = 1)
      raised == Increment(kept)
  IN IF ~up THEN [bits |-> kept, e |-> e + k]
     ELSE IF Len(raised) > Precision THEN [bits |-> Front(raised), e |-> e + k + 1]
     ELSE [bits |-> raised, e |-> e + k]

(* long division of the number with the binary digits 'digits', a whole
   number of chunks, by c: the digits of the quotient and the remainder *)
RECURSIVE LongDivision(_, _, _)
LongDivision(digits, c, rem) ==
  LET v == rem * Chunk + BitsValue(SubSeq(digits, 1, ChunkBits))
      Then(rest) == [bits |-> ValueBits(v \div c, ChunkBits) \o rest.bits, rem |-> rest.rem]
  IN IF Len(digits) = 0 THEN [bits |-> <<>>, rem |-> rem]
     ELSE Then(LongDivision(SubSeq(digits, ChunkBits + 1, Len(digits)), c, v % c))

(* x / c for a double x >= 0 and an integer 0 < c < Chunk: the dividend is
   carried on below its last digit so that the quotient has more than
   Precision digits *)
DoubleDiv(x, c) ==
  LET needed == Precision + 1 + ChunkBits
      lowered == needed + ((ChunkBits - ((Len(x.bits) + needed) % ChunkBits)) % ChunkBits)
      Rounded(d) == RoundNearestEven(Significant(d.bits), x.e - lowered, d.rem # 0)
  IN IF Len(x.bits) = 0 THEN DoubleZero
     ELSE Rounded(LongDivision(x.bits \o Zeros(lowered), c, 0))

(* n / m for integers 0 <= n and 0 < m < Chunk *)
Quotient(n, m) == DoubleDiv([bits |-> ToBits(n), e |-> 0], m)

(* the digits of x + y for digit rows of one length: a place receives a
   carry when some lower place generates one and the places between pass
   it on *)
AddBits(x, y) ==
  LET n == Len(x)
      CarryInto(i) ==
        \E j \in (i + 1)..n :
          /\ x[j] + y[j] = 2
          /\ \A h \in (i + 1)..(j - 1) : x[h] + y[h] = 1
      Digit(i) == (x[i] + y[i] + (IF CarryInto(i) THEN 1 ELSE 0)) % 2
  IN (IF CarryInto(0) THEN <<1>> ELSE <<>>) \o [i \in 1..n |-> Digit(i)]

(* x + y for doubles x, y >= 0 *)
DoubleAdd(x, y) ==
  LET e == IF x.e < y.e THEN x.e ELSE y.e
      xs == x.bits \o Zeros(x.e - e)
      ys == y.bits \o Zeros(y.e - e)
      n == IF Len(xs) > Len(ys) THEN Len(xs) ELSE Len(ys)
  IN IF Len(x.bits) = 0 THEN y
     ELSE IF Len(y.bits) = 0 THEN x
     ELSE RoundNearestEven(
            Significant(AddBits(Zeros(n - Len(xs)) \o xs, Zeros(n - Len(ys)) \o ys)),
            e, FALSE)

(* x < y for doubles x, y >= 0 *)
DoubleLt(x, y) ==
  IF Len(y.bits) = 0 THEN FALSE
  ELSE IF Len(x.bits) = 0 THEN TRUE
  ELSE \/ x.e < y.e
       \/ /\ x.e = y.e
          /\ \E i \in 1..Precision :
               /\ x.bits[i] < y.bits[i]
               /\ \A j \in 1..(i - 1) : x.bits[j] = y.bits[j]

(* Math.max *)
DoubleMax(x, y) == IF DoubleLt(x, y) THEN y ELSE x

(* drawdowns.reduce((a, b) => a + b, 0) *)
RECURSIVE DoubleSum(_, _)
DoubleSum(drawdowns, a) ==
  IF Len(drawdowns) = 0 THEN a
  ELSE DoubleSum(Tail(drawdowns), DoubleAdd(a, drawdowns[1]))

(* the loop body at index i (0-based), as DrawdownStep, on integer prices *)
DoubleDrawdownStep(prices, i, st) ==
  LET price == prices[i + 1]
      last  == i = Len(prices) - 1
      Below(drawdown, start) ==
        [st EXCEPT !.drawdowns = Append(st.drawdowns, drawdown),
           !.maxDrawdown = DoubleMax(st.maxDrawdown, drawdown),
           !.currentDrawdownStart = start,
           !.currentDrawdown = IF last THEN drawdown ELSE st.currentDrawdown,
           !.maxDrawdownDuration =
              IF last THEN MaxI(st.maxDrawdownDuration, i - start)
              ELSE st.maxDrawdownDuration]
  IN IF price > st.peak
     THEN [st EXCEPT !.peak = price, !.peakIndex = i,
             !.maxDrawdownDuration =
                IF st.currentDrawdownStart >= 0
                THEN MaxI(st.maxDrawdownDuration, i - st.currentDrawdownStart)
                ELSE st.maxDrawdownDuration,
             !.currentDrawdownStart = -1]
     ELSE Below(Quotient(st.peak - price, st.peak),
                IF st.currentDrawdownStart < 0 THEN st.peakIndex
                ELSE st.currentDrawdownStart)

RECURSIVE DoubleDrawdownLoop(_, _, _)
DoubleDrawdownLoop(prices, i, st) ==
  IF i >= Len(prices) THEN st
  ELSE DoubleDrawdownLoop(prices, i + 1, DoubleDrawdownStep(prices, i, st))

(* averageDrawdown *)
DoubleMean(drawdowns) ==
  IF Len(drawdowns) > 0
  THEN DoubleDiv(DoubleSum(drawdowns, DoubleZero), Len(drawdowns))
  ELSE DoubleZero

(* calculateMaxDrawdown(prices) for positive integer prices *)
calculateMaxDrawdownDouble(prices) ==
  LET Summary(st) ==
        [maxDrawdown |-> st.maxDrawdown,
         maxDrawdownDuration |-> st.maxDrawdownDuration,
         currentDrawdown |-> st.currentDrawdown,
         averageDrawdown |-> DoubleMean(st.drawdowns)]
  IN IF Len(prices) < 2
     THEN [maxDrawdown |-> DoubleZero, maxDrawdownDuration |-> 0,
           currentDrawdown |-> DoubleZero, averageDrawdown |-> DoubleZero]
     ELSE Summary(DoubleDrawdownLoop(prices, 1,
                    [maxDrawdown |-> DoubleZero, maxDrawdownDuration |-> 0,
                     peak |-> prices[1], peakIndex |-> 0, currentDrawdown |-> DoubleZero,
                     drawdowns |-> <<>>, currentDrawdownStart |-> -1]))

MaxLength == 4        \* the longest series of SpecDouble
MaxLevel == 5         \* its highest price

(* every series of 0 to MaxLength prices in 1..MaxLevel *)
LevelSeries == UNION { [1..n -> 1..MaxLevel] : n \in 0..MaxLength }

InitDouble ==
  /\ pc = "call"
  /\ fn = "none"
  /\ priceDataArg = <<>>
  /\ financialMetricsArg = <<>>
  /\ seriesArg \in LevelSeries
  /\ result = NoResult
  /\ body = NoBody
  /\ response = NoResponse
  /\ NoPriceAlerts
  /\ NoPrompt

CalculateMaxDrawdownDouble ==
  Returns("calculateMaxDrawdown", calculateMaxDrawdownDouble(seriesArg))

NextDouble == CalculateMaxDrawdownDouble

SpecDouble == InitDouble /\ [][NextDouble]_vars

----------------------------------------------------------------------------
(* PriceAlerts (src/components/PriceAlerts.tsx): a client component holding
   the alerts and the checking flag as React state.  A function of the
   component reads the state of the render that created it: an event
   handler that of the latest render, a timer callback that of the render
   whose effect set the timer, the continuation of an await that of the
   render in which the call began.  State updates made in one synchronous
   run are applied together by the render that follows. *)

MaxAlerts == 1          \* alerts alive at once, the copies in flight included
MaxChecks == 2          \* checkAlerts calls in flight at once
MaxNotifications == 2   \* notifications counted per alert

AlertIds == 1..MaxAlerts

TargetPrice == 2

AlertPrices == {1, 3}

Conditions == {"above", "below"}

PriceAlert(id, condition, currentPrice, triggered) ==
  [id |-> id, condition |-> condition, targetPrice |-> TargetPrice,
   currentPrice |-> currentPrice, triggered |-> triggered]

(* what localStorage holds when the component mounts: nothing, or the
   alerts an earlier session saved (the component never saves an empty
   list) *)
SavedAlerts ==
  {<<>>}
  \cup { <<PriceAlert(1, c, p, t)>> : c \in Conditions, p \in AlertPrices, t \in BOOLEAN }

(* the outcome of the price fetch of one alert: a price, a response that is
   not ok, or a rejected fetch *)
PriceResponses ==
  { [kind |-> "ok", price |-> p] : p \in AlertPrices }
  \cup { [kind |-> "not ok", price |-> 0], [kind |-> "rejected", price |-> 0] }

IdsOf(list) == { list[i].id : i \in 1..Len(list) }

(* the ids some array of the component or of a call in flight still holds *)
IdsInUse ==
  IdsOf(alerts) \cup IdsOf(interval.alerts) \cup IdsOf(adding.alerts)
  \cup UNION { IdsOf(checks[k].currentAlerts) : k \in 1..Len(checks) }

InitAlerts ==
  /\ pc = "rendered"
  /\ fn = "PriceAlerts"
  /\ priceDataArg = <<>>
  /\ financialMetricsArg = NoFinancialMetrics
  /\ seriesArg = <<>>
  /\ result = NoResult
  /\ body = NoBody
  /\ response = NoResponse
  /\ alerts = <<>>
  /\ checking = FALSE
  /\ interval = NoInterval
  /\ checks = <<>>
  /\ adding = NoAdding
  /\ storage \in SavedAlerts
  /\ permission \in {"default", "granted"}
  /\ notifications = [id \in AlertIds |->
                        IF \E i \in 1..Len(storage) : storage[i].id = id /\ storage[i].triggered
                        THEN 1 ELSE 0]
  /\ NoPrompt

(* the render that follows setAlerts / setChecking, and its effects: the
   interval effect runs when alerts.length changed, clears the timer and,
   unless the list is empty, sets one whose callback closes over the alerts
   and the checkAlerts of this render; the save effect stores a list that
   is not empty *)
Renders(nextAlerts, nextChecking) ==
  /\ alerts' = nextAlerts
  /\ checking' = nextChecking
  /\ interval' = IF Len(nextAlerts) = Len(alerts) THEN interval
                 ELSE IF Len(nextAlerts) = 0 THEN NoInterval
                 ELSE [set |-> TRUE, alerts |-> nextAlerts, checking |-> nextChecking]
  /\ storage' = IF Len(nextAlerts) > 0 THEN nextAlerts ELSE storage

(* checkAlerts(currentAlerts) up to the first await: the callback of an
   alert that is triggered has returned it already *)
CheckOf(currentAlerts) ==
  [currentAlerts |-> currentAlerts,
   updatedAlerts |-> currentAlerts,
   resolved |-> { i \in 1..Len(currentAlerts) : currentAlerts[i].triggered }]

(* the mount effect: setAlerts(savedAlerts); checkAlerts(savedAlerts), whose
   checking is that of the first render *)
Mount ==
  /\ pc = "rendered"
  /\ pc' = "mounted"
  /\ IF Len(storage) > 0
     THEN /\ checks' = Append(checks, CheckOf(storage))
          /\ Renders(storage, TRUE)
     ELSE UNCHANGED <<alerts, checking, interval, checks, storage>>
  /\ UNCHANGED <<fn, priceDataArg, financialMetricsArg, seriesArg, result, body, response>>
  /\ UNCHANGED <<adding, permission, notifications, promptVars>>

(* the timer fires: checkAlerts(alerts) with the alerts and the checking the
   callback closed over; 'if (checking) return' leaves the state as it is *)
Tick ==
  /\ pc = "mounted"
  /\ interval.set
  /\ ~interval.checking
  /\ Len(checks) < MaxChecks
  /\ checks' = Append(checks, CheckOf(interval.alerts))
  /\ Renders(alerts, TRUE)
  /\ UNCHANGED <<quantVars, adding, permission, notifications, promptVars>>

ShouldTrigger(alert, currentPrice) ==
  \/ alert.condition = "above" /\ currentPrice >= alert.targetPrice
  \/ alert.condition = "below" /\ currentPrice <= alert.targetPrice

(* the price the callback compares: the fetched one when the response is ok *)
PriceSeen(alert, priceResponse) ==
  IF priceResponse.kind = "ok" THEN priceResponse.price ELSE alert.currentPrice

(* new Notification(...) is reached *)
Notifies(alert, priceResponse) ==
  /\ priceResponse.kind # "rejected"
  /\ ShouldTrigger(alert, PriceSeen(alert, priceResponse))
  /\ ~alert.triggered
  /\ permission = "granted"

(* what the callback of one alert returns.  The fallback 'alert(...)' stands
   inside '(alert) => { ... }', so it calls the callback's own parameter, a
   PriceAlert object: the TypeError is caught by the callback's try, which
   returns the alert as it was given, and the return marking it triggered
   is not reached *)
CheckedAlert(alert, priceResponse) ==
  IF priceResponse.kind = "rejected" THEN alert
  ELSE IF ShouldTrigger(alert, PriceSeen(alert, priceResponse)) /\ ~alert.triggered
  THEN alert
  ELSE [alert EXCEPT !.currentPrice = PriceSeen(alert, priceResponse)]

(* the fetch of one alert of one call settles and its callback runs on *)
PriceResponse ==
  /\ pc = "mounted"
  /\ \E k \in 1..Len(checks), priceResponse \in PriceResponses :
       \E i \in (1..Len(checks[k].currentAlerts)) \ checks[k].resolved :
         LET alert == checks[k].currentAlerts[i]
         IN /\ Notifies(alert, priceResponse) => notifications[alert.id] < MaxNotifications
            /\ notifications' =
                 IF Notifies(alert, priceResponse)
                 THEN [notifications EXCEPT ![alert.id] = @ + 1]
                 ELSE notifications
            /\ checks' = [checks EXCEPT
                            ![k].updatedAlerts[i] = CheckedAlert(alert, priceResponse),
                            ![k].resolved = @ \cup {i}]
  /\ UNCHANGED <<quantVars, alerts, checking, interval, adding, storage, permission, promptVars>>

Without(list, k) == [i \in 1..(Len(list) - 1) |-> IF i < k THEN list[i] ELSE list[i + 1]]

(* Promise.all has resolved: setAlerts(updatedAlerts); setChecking(false) *)
CheckDone ==
  /\ pc = "mounted"
  /\ \E k \in 1..Len(checks) :
       /\ checks[k].resolved = 1..Len(checks[k].currentAlerts)
       /\ Renders(checks[k].updatedAlerts, FALSE)
       /\ checks' = Without(checks, k)
  /\ UNCHANGED <<quantVars, adding, permission, notifications, promptVars>>

(* handleAddAlert up to its await: the form is filled in *)
HandleAddAlert ==
  /\ pc = "mounted"
  /\ ~adding.active
  /\ AlertIds \ IdsInUse # {}
  /\ adding' = [active |-> TRUE, alerts |-> alerts]
  /\ UNCHANGED <<quantVars, alerts, checking, interval, checks, storage, permission,
                 notifications, promptVars>>

(* handleAddAlert after its await: setAlerts([...alerts, newAlert]) with the
   alerts of the render of the click; currentPrice is 0 when the fetch
   failed; requestNotificationPermission() asks when the permission is
   'default' *)
HandleAddAlertFetched ==
  /\ pc = "mounted"
  /\ adding.active
  /\ AlertIds \ IdsInUse # {}
  /\ \E condition \in Conditions, currentPrice \in AlertPrices \cup {0} :
       LET id == CHOOSE n \in AlertIds \ IdsInUse : \A o \in AlertIds \ IdsInUse : n <= o
       IN /\ Renders(Append(adding.alerts, PriceAlert(id, condition, currentPrice, FALSE)),
                     checking)
          /\ notifications' = [notifications EXCEPT ![id] = 0]
  /\ adding' = NoAdding
  /\ permission' \in IF permission = "default" THEN {"default", "granted", "denied"}
                     ELSE {permission}
  /\ UNCHANGED <<quantVars, checks, promptVars>>

SelectAlerts(list, Test(_)) ==
  LET kept == { i \in 1..Len(list) : Test(list[i]) }
      Place(j) == CHOOSE i \in kept : Cardinality({ h \in kept : h < i }) = j - 1
  IN [j \in 1..Cardinality(kept) |-> list[Place(j)]]

(* handleRemoveAlert(id), confirmed: setAlerts(alerts.filter(a => a.id !== id)) *)
HandleRemoveAlert ==
  /\ pc = "mounted"
  /\ \E id \in IdsOf(alerts) :
       LET Other(a) == a.id # id
       IN Renders(SelectAlerts(alerts, Other), checking)
  /\ UNCHANGED <<quantVars, checks, adding, permission, notifications, promptVars>>

(* handleResetAlert(id), whose button a triggered alert shows:
   setAlerts(alerts.map(a => a.id === id ? { ...a, triggered: false } : a)) *)
HandleResetAlert ==
  /\ pc = "mounted"
  /\ \E i \in 1..Len(alerts) :
       /\ alerts[i].triggered
       /\ Renders([j \in 1..Len(alerts) |->
                     IF alerts[j].id = alerts[i].id
                     THEN [alerts[j] EXCEPT !.triggered = FALSE] ELSE alerts[j]],
                  checking)
       /\ notifications' = [notifications EXCEPT ![alerts[i].id] = 0]
  /\ UNCHANGED <<quantVars, checks, adding, permission, promptVars>>

NextAlerts ==
  \/ Mount
  \/ Tick
  \/ PriceResponse
  \/ CheckDone
  \/ HandleAddAlert
  \/ HandleAddAlertFetched
  \/ HandleRemoveAlert
  \/ HandleResetAlert

SpecAlerts == InitAlerts /\ [][NextAlerts]_vars

----------------------------------------------------------------------------
(* recursivePrompt (src/lib/gemini-quant.ts).  A text is the record of what
   the function looks at: its length, how much of it is white space at its
   ends, and the phrase it holds. *)

MaxIterations == 3      \* the largest maxIterations of a top-level call

MinLength == 100

Phrases == {"", "uncertain", "Uncertainty", "INCONCLUSIVE", "requires further",
            "Limited Data", "unclear"}

ToLowerCase(phrase) ==
  CASE phrase = "Uncertainty" -> "uncertainty"
    [] phrase = "INCONCLUSIVE" -> "inconclusive"
    [] phrase = "Limited Data" -> "limited data"
    [] OTHER -> phrase

(* String.prototype.includes on the phrases above *)
Includes(phrase, part) == phrase = part \/ (phrase = "uncertainty" /\ part = "uncertain")

Text(chars, blanks, phrase) == [chars |-> chars, blanks |-> blanks, phrase |-> phrase]

EmptyText == Text(0, 0, "")

(* 'Analysis unavailable' *)
AnalysisUnavailable == Text(20, 0, "")

(* text.trim().length *)
TrimmedLength(text) == text.chars - text.blanks

(* a string is falsy when it is empty *)
IsEmpty(text) == text.chars = 0

(* the texts of the responses: empty, or just below and at the length the
   function asks for, with and without a blank at the end *)
Texts ==
  {EmptyText}
  \cup { Text(n + b, b, p) : n \in {MinLength - 1, MinLength}, b \in {0, 1}, p \in Phrases }

(* how a request ends: rejected (network, status, timeout), resolved with a
   body that has no candidates array, or resolved with a text ('' when the
   first candidate has none) *)
ApiResponses ==
  {[kind |-> "rejected", text |-> <<>>], [kind |-> "malformed", text |-> <<>>]}
  \cup { [kind |-> "ok", text |-> t] : t \in Texts }

(* previousContext of a top-level call: empty, or the insights of earlier
   calls, which may be '' *)
TopLevelContexts ==
  {<<>>, <<EmptyText>>, <<Text(MinLength, 0, "")>>, <<Text(MinLength, 0, ""), EmptyText>>}

InitPrompt ==
  /\ pc = "call"
  /\ fn = "recursivePrompt"
  /\ priceDataArg = <<>>
  /\ financialMetricsArg = NoFinancialMetrics
  /\ seriesArg = <<>>
  /\ result = NoResult
  /\ body = NoBody
  /\ response = NoResponse
  /\ NoPriceAlerts
  /\ previousContext \in TopLevelContexts
  /\ maxIterations \in 0..MaxIterations
  /\ currentIteration = 0
  /\ requests = 0
  /\ apiResponse = NoApiResponse

(* previousContext[previousContext.length - 1] || fallback *)
LastOr(context, fallback) ==
  IF Len(context) = 0 THEN fallback
  ELSE IF IsEmpty(context[Len(context)]) THEN fallback
  ELSE context[Len(context)]

(* the promise of the top-level call resolves; a recursive call is returned,
   so its value is the value of the calls above it *)
ResolvesWith(text) ==
  /\ result' = text
  /\ pc' = "resolved"

(* if (currentIteration >= maxIterations) return ...; otherwise the prompt
   is built and axios.post called *)
Enter ==
  /\ pc = "call"
  /\ IF currentIteration >= maxIterations
     THEN /\ ResolvesWith(LastOr(previousContext, EmptyText))
          /\ UNCHANGED requests
     ELSE /\ requests' = requests + 1
          /\ pc' = "awaiting"
          /\ UNCHANGED result
  /\ UNCHANGED <<fn, priceDataArg, financialMetricsArg, seriesArg, body, response, alertVars>>
  /\ UNCHANGED <<previousContext, maxIterations, currentIteration, apiResponse>>

NeedsDeeperAlways(text) == TRUE

(* needsDeeperAnalysis *)
NeedsDeeperAnalysis(text) ==
  \/ Includes(ToLowerCase(text.phrase), "uncertain")
  \/ Includes(ToLowerCase(text.phrase), "inconclusive")
  \/ Includes(ToLowerCase(text.phrase), "requires further")
  \/ Includes(ToLowerCase(text.phrase), "limited data")

(* the request settles and the rest of the try block, or the catch, runs.
   response.data.candidates[0] throws inside the try when the body has no
   candidates *)
Settle ==
  /\ pc = "awaiting"
  /\ \E settled \in ApiResponses :
       /\ apiResponse' = settled
       /\ IF settled.kind # "ok"
          THEN /\ ResolvesWith(LastOr(previousContext, AnalysisUnavailable))
               /\ UNCHANGED <<previousContext, currentIteration>>
          ELSE IF IsEmpty(settled.text) \/ TrimmedLength(settled.text) < MinLength
          THEN /\ ResolvesWith(LastOr(previousContext, EmptyText))
               /\ UNCHANGED <<previousContext, currentIteration>>
          ELSE IF NeedsDeeperAnalysis(settled.text) /\ currentIteration < maxIterations - 1
          THEN /\ previousContext' = Append(previousContext, settled.text)
               /\ currentIteration' = currentIteration + 1
               /\ pc' = "call"
               /\ UNCHANGED result
          ELSE /\ ResolvesWith(settled.text)
               /\ UNCHANGED <<previousContext, currentIteration>>
  /\ UNCHANGED <<fn, priceDataArg, financialMetricsArg, seriesArg, body, response, alertVars>>
  /\ UNCHANGED <<maxIterations, requests>>

NextPrompt ==
  \/ Enter
  \/ Settle

SpecPrompt == InitPrompt /\ [][NextPrompt]_vars

(* axios.post is given timeout: 60000, so a request in flight settles; the
   synchronous code between two awaits runs to its end *)
SpecPromptFair == SpecPrompt /\ WF_vars(NextPrompt)

----------------------------------------------------------------------------
(* Claims about performQuantitativeAnalysis, under SpecQuant *)

Returned == pc = "done" /\ fn = "performQuantitativeAnalysis"

(* C1: performQuantitativeAnalysis fails with the insufficient-data error, and
   returns no result, exactly when priceData has fewer than 2 samples. *)
C1_InsufficientDataIffShort ==
  (pc # "call" /\ fn = "performQuantitativeAnalysis") =>
     /\ (Len(priceDataArg) < 2) <=> (pc = "thrown")
     /\ pc = "thrown" =>
          result = [thrown |-> TRUE,
                    message |-> "Insufficient data for quantitative analysis"]
     /\ pc = "done" => ~result.thrown /\ "tradingSignals" \in DOMAIN result

(* a single sample was given and the call threw *)
C1_Witness ==
  pc = "thrown" /\ fn = "performQuantitativeAnalysis" /\ Len(priceDataArg) = 1

ClampI(v, lo, hi) == IF v < lo THEN lo ELSE IF v > hi THEN hi ELSE v

(* C2: for every series of 2 or more samples and any fundamentals,
   signalStrength = clamp(technicalSignal + fundamentalSignal, -100, 100),
   confidence = clamp(|signalStrength|, 20, 95), and overallRiskScore is a
   number in [0, 100]. *)
C2_SignalAndRiskBounds ==
  Returned =>
    LET t == result.tradingSignals
        score == result.riskMetrics.overallRiskScore
    IN /\ t.signalStrength = ClampI(t.technicalSignal + t.fundamentalSignal, -100, 100)
       /\ t.confidence = ClampI(AbsI(t.signalStrength), 20, 95)
       /\ score.k = "fin"
       /\ Sign(score) >= 0
       /\ Sign(Sub(score, Num(100))) <= 0

(* C3: exactly one of buySignal, sellSignal, holdSignal is true; buy iff
   strength > 30, sell iff strength < -30, hold iff -30 <= strength <= 30. *)
C3_SignalsPartition ==
  Returned =>
    LET t == result.tradingSignals
    IN /\ t.buySignal <=> t.signalStrength > 30
       /\ t.sellSignal <=> t.signalStrength < -30
       /\ t.holdSignal <=> (t.signalStrength >= -30 /\ t.signalStrength <= 30)
       /\ Cardinality({f \in {"buySignal", "sellSignal", "holdSignal"} : t[f]}) = 1

(* an analysis whose strength sits on the +30 boundary *)
C3_Witness ==
  Returned /\ result.tradingSignals.signalStrength = 30 /\ result.tradingSignals.holdSignal

----------------------------------------------------------------------------
(* Claims about calculateIndicators, under SpecInd *)

Calculated == pc = "done" /\ fn = "calculateIndicators"

(* C4: for 60 prices rising linearly from 100 to 159, without high and low,
   calculateIndicators returns trend "bullish" and recommendation "buy". *)
C4_RisingSeriesBullishBuy ==
  (Calculated /\ priceDataArg = History(60, 100, 1, FALSE)) =>
     result.trend = "bullish" /\ result.recommendation = "buy"

(* C5: for 60 prices falling linearly from 159 to 100, calculateIndicators
   returns trend "bearish". *)
C5_FallingSeriesBearish ==
  (Calculated /\ priceDataArg = History(60, 159, -1, FALSE)) =>
     result.trend = "bearish"

----------------------------------------------------------------------------
(* Claims about the statistical functions, under SpecStat *)

Applied(name) == pc = "done" /\ fn = name

(* C6: for every return series of at least 10 samples, of any sign pattern,
   calculateCVaR(returns, 0.95) >= calculateVaR(returns, 0.95). *)
C6_CVaRAtLeastVaR ==
  (Applied("calculateCVaR") /\ Len(seriesArg) >= 10) =>
     Ge(result, calculateVaR(Hundredths(seriesArg), 95))

NoNegativeReturn == \A i \in 1..Len(seriesArg) : seriesArg[i] >= 0

(* C7 as stated: calculateSortinoRatio returns 100 for every return series,
   of any length, that contains no negative return. *)
C7_SortinoSentinelAnyLength ==
  (Applied("calculateSortinoRatio") /\ NoNegativeReturn) => result = Num(100)

(* C7, amended: calculateSortinoRatio returns 100 for every return series of
   2 or more returns that contains no negative return, and 0 for every
   series of fewer than 2 returns. *)
C7_SortinoSentinel ==
  Applied("calculateSortinoRatio") =>
     /\ (Len(seriesArg) >= 2 /\ NoNegativeReturn) => result = Num(100)
     /\ Len(seriesArg) < 2 => result = Num(0)

(* 2 or more returns, none negative, one of them zero: the sentinel *)
C7_Witness ==
  /\ Applied("calculateSortinoRatio")
  /\ Len(seriesArg) >= 2 /\ NoNegativeReturn
  /\ \E i \in 1..Len(seriesArg) : seriesArg[i] = 0
  /\ result = Num(100)

AllEqual == \A i, j \in 1..Len(seriesArg) : seriesArg[i] = seriesArg[j]

(* C8: calculateSkewness returns 0 whenever the input has fewer than 3
   values or all its values are equal (zero standard deviation); it never
   yields NaN from dividing by a zero stdDev. *)
C8_SkewnessGuards ==
  (Applied("calculateSkewness") /\ (Len(seriesArg) < 3 \/ AllEqual)) =>
     result = Num(0)

StrictlyAscendingPositive ==
  /\ \A i \in 1..Len(seriesArg) : seriesArg[i] > 0
  /\ \A i \in 1..(Len(seriesArg) - 1) : seriesArg[i] < seriesArg[i + 1]

(* C9: for every strictly ascending series of 2 or more positive prices,
   calculateMaxDrawdown returns maxDrawdown = 0 and currentDrawdown = 0; for
   fewer than 2 prices all four outputs are 0. *)
C9_AscendingNoDrawdown ==
  Applied("calculateMaxDrawdown") =>
     /\ (Len(seriesArg) >= 2 /\ StrictlyAscendingPositive) =>
           result.maxDrawdown = Num(0) /\ result.currentDrawdown = Num(0)
     /\ Len(seriesArg) < 2 =>
           result = [maxDrawdown |-> Num(0), maxDrawdownDuration |-> 0,
                     currentDrawdown |-> Num(0), averageDrawdown |-> Num(0)]

(* a strictly ascending series of 3 or more positive prices was measured *)
C9_Witness ==
  /\ Applied("calculateMaxDrawdown")
  /\ Len(seriesArg) >= 3 /\ StrictlyAscendingPositive
  /\ result.maxDrawdown = Num(0)

----------------------------------------------------------------------------
(* Claim about the short-history result of calculateIndicators, under SpecInd *)

LastPriceOrZero ==
  IF Len(priceDataArg) > 0 THEN Num(priceDataArg[Len(priceDataArg)].price) ELSE Num(0)

(* C10: on a history of fewer than 50 samples, lengths 0 and 1 included,
   calculateIndicators returns, without throwing, rsi 50, adx 25, stochastic
   k = d = 50, macd all 0, trend "neutral", recommendation "hold",
   confidence 0, and sma20, sma50, sma200 and all Bollinger bands equal to
   the last price (0 when the history is empty). *)
C10_ShortHistoryNeutral ==
  (pc # "call" /\ Len(priceDataArg) < 50) =>
     /\ Calculated
     /\ result.rsi = Num(50) /\ result.adx = Num(25)
     /\ result.stochastic = [k |-> Num(50), d |-> Num(50)]
     /\ result.macd = [value |-> Num(0), signal |-> Num(0), histogram |-> Num(0)]
     /\ result.trend = "neutral" /\ result.recommendation = "hold"
     /\ result.confidence = Num(0)
     /\ result.sma20 = LastPriceOrZero /\ result.sma50 = LastPriceOrZero
     /\ result.sma200 = LastPriceOrZero
     /\ result.bollinger = [upper |-> LastPriceOrZero, middle |-> LastPriceOrZero,
                             lower |-> LastPriceOrZero]

(* a history of 49 samples, one short of the threshold, got the defaults *)
C10_Witness ==
  Calculated /\ Len(priceDataArg) = 49 /\ result.sma200 = LastPriceOrZero
  /\ Sign(LastPriceOrZero) > 0

----------------------------------------------------------------------------
(* Claims about calculateRSI and calculateADX, under SpecTech *)

NonDecreasing ==
  \A i \in 1..(Len(seriesArg) - 1) : seriesArg[i] <= seriesArg[i + 1]

InPercentRange(x) == IsFinite(x) /\ Ge(x, Num(0)) /\ Le(x, Num(100))

(* C11: calculateRSI returns 50 whenever prices.length < period + 1, returns
   100 for every non-decreasing (so also every flat) series of at least
   period + 1 prices, where the smoothed average loss is 0, and always
   returns a value in [0, 100]. *)
C11_RSIGuardsAndRange ==
  Applied("calculateRSI") =>
    /\ Len(seriesArg) < result.period + 1 => result.value = Num(50)
    /\ (Len(seriesArg) >= result.period + 1 /\ NonDecreasing) =>
          result.value = Num(100)
    /\ InPercentRange(result.value)

(* a series with gains and losses, long enough: the index lies strictly
   between the two ends *)
C11_Witness ==
  /\ Applied("calculateRSI")
  /\ Len(seriesArg) >= result.period + 1
  /\ Gt(result.value, Num(0))
  /\ Lt(result.value, Num(100))
  /\ result.value # Num(50)

(* the true range of each of the last period days is 0: no spread and the
   closes of the last period + 1 days are equal *)
FlatTrueRange ==
  /\ result.spread = 0
  /\ \A i \in (Len(seriesArg) - result.period)..Len(seriesArg) :
       seriesArg[i] = seriesArg[Len(seriesArg)]

(* C12: calculateADX returns 25 whenever there are fewer than 2 * period
   samples or the average true range of the last period is 0, and in every
   other case a value in [0, 100], also when both directional sums are 0. *)
C12_ADXGuardsAndRange ==
  Applied("calculateADX") =>
    /\ Len(seriesArg) < 2 * result.period => result.value = Num(25)
    /\ (Len(seriesArg) >= 2 * result.period /\ FlatTrueRange) =>
          result.value = Num(25)
    /\ InPercentRange(result.value)

(* an up day and a down day in the last period: the index is neither the
   default nor an end of the range *)
C12_Witness ==
  /\ Applied("calculateADX")
  /\ Len(seriesArg) >= 2 * result.period
  /\ ~FlatTrueRange
  /\ result.value # Num(25)
  /\ Gt(result.value, Num(0))
  /\ Lt(result.value, Num(100))

----------------------------------------------------------------------------
(* Claims about steady series, under SpecSteady *)

(* fewer than 2 returns, or all returns equal: prices are positive, so
   p[i+1]/p[i] = p[i]/p[i-1] is p[i+1] * p[i-1] = p[i] * p[i] *)
SteadyReturns ==
  \A i \in 2..(Len(priceDataArg) - 1) :
    priceDataArg[i + 1].price * priceDataArg[i - 1].price
      = priceDataArg[i].price * priceDataArg[i].price

FlatHundred ==
  /\ Len(priceDataArg) = 60
  /\ \A i \in 1..60 : priceDataArg[i].price = 100

(* C13: on a series whose returns are fewer than 2 or all equal, so on the
   flat series of 60 prices of 100, performQuantitativeAnalysis reports
   volatility 0 and sharpeRatio 0; on a flat series of at least 50 prices
   calculateIndicators reports rsi 100. *)
C13_FlatSeries ==
  /\ (Returned /\ SteadyReturns) =>
        /\ result.statisticalAnalysis.volatility = Num(0)
        /\ result.riskMetrics.volatility = Num(0)
        /\ result.riskMetrics.sharpeRatio = Num(0)
  /\ (Calculated /\ Len(priceDataArg) >= 50
        /\ \A i \in 1..Len(priceDataArg) :
             priceDataArg[i].price = priceDataArg[1].price) =>
        result.rsi = Num(100)

(* the analysis of the 60 prices of 100 *)
C13_Witness ==
  /\ Returned
  /\ FlatHundred
  /\ result.statisticalAnalysis.volatility = Num(0)
  /\ result.riskMetrics.sharpeRatio = Num(0)

----------------------------------------------------------------------------
(* Claims about scaled histories, under SpecScale *)

(* C14: with every price multiplied by a positive k (no high and low, at
   least 50 samples) calculateIndicators gives the same rsi, adx, trend and
   recommendation, and sma20, sma50, sma200 and the three Bollinger bands
   multiplied by k. *)
C14_ScaleInvariance ==
  Applied("calculateIndicators") =>
    /\ result.scaled.rsi = result.base.rsi
    /\ result.scaled.adx = result.base.adx
    /\ result.scaled.trend = result.base.trend
    /\ result.scaled.recommendation = result.base.recommendation
    /\ result.scaled.sma20 = Mul(result.base.sma20, result.k)
    /\ result.scaled.sma50 = Mul(result.base.sma50, result.k)
    /\ result.scaled.sma200 = Mul(result.base.sma200, result.k)
    /\ result.scaled.bollinger.upper = Mul(result.base.bollinger.upper, result.k)
    /\ result.scaled.bollinger.middle = Mul(result.base.bollinger.middle, result.k)
    /\ result.scaled.bollinger.lower = Mul(result.base.bollinger.lower, result.k)

(* a history long enough for the 200-day average, with a trend, bands of
   positive width and an rsi off its defaults *)
C14_Witness ==
  /\ Applied("calculateIndicators")
  /\ Len(priceDataArg) >= 200
  /\ result.base.trend = "bullish"
  /\ result.base.recommendation = "buy"
  /\ Gt(result.base.bollinger.upper, result.base.bollinger.middle)
  /\ result.scaled.sma200 # result.base.sma200

----------------------------------------------------------------------------
(* Claims about absent fundamentals, under SpecQuant *)

(* the analysis of the same series without financialMetrics *)
WithoutFundamentals ==
  performQuantitativeAnalysis(priceDataArg, NoFinancialMetrics, "stock")

(* a result with the fundamental sub-signal, the signal strength and the
   echo of the input blanked *)
BlankFundamental(r) ==
  [r EXCEPT !.financialMetrics = NoFinancialMetrics,
            !.tradingSignals.fundamentalSignal = 0,
            !.tradingSignals.signalStrength = 0]

(* ... and with them the fields computed from the signal strength *)
BlankStrength(r) ==
  [BlankFundamental(r) EXCEPT !.tradingSignals.buySignal = FALSE,
                              !.tradingSignals.sellSignal = FALSE,
                              !.tradingSignals.holdSignal = FALSE,
                              !.tradingSignals.confidence = 0]

(* without financialMetrics the analysis fails only as it fails with them,
   its fundamental sub-signal is 0 and its strength the clamped technical
   signal *)
AbsentContributesZero(without) ==
  /\ without.thrown <=> pc = "thrown"
  /\ ~without.thrown =>
       /\ without.tradingSignals.fundamentalSignal = 0
       /\ without.tradingSignals.signalStrength
            = ClampI(without.tradingSignals.technicalSignal, -100, 100)

(* C15, as stated: in the result without financialMetrics every field but
   fundamentalSignal and signalStrength is as with fundamentals supplied. *)
C15_AbsentFundamentalsAllFields ==
  LET Same(without) ==
        /\ AbsentContributesZero(without)
        /\ Returned => BlankFundamental(without) = BlankFundamental(result)
  IN (pc # "call") => Same(WithoutFundamentals)

(* C15, amended: performQuantitativeAnalysis does not fail for absent or
   partial financialMetrics; without them fundamentalSignal is 0 and
   signalStrength the clamped technicalSignal, and every field but these two
   and the buySignal, sellSignal, holdSignal and confidence computed from
   signalStrength is as with fundamentals supplied. *)
C15_AbsentFundamentals ==
  LET Same(without) ==
        /\ AbsentContributesZero(without)
        /\ Returned => BlankStrength(without) = BlankStrength(result)
  IN (pc # "call") => Same(WithoutFundamentals)

(* fundamentals were supplied and moved the signal across the buy threshold *)
C15_Witness ==
  /\ Returned
  /\ financialMetricsArg.present
  /\ result.tradingSignals.fundamentalSignal # 0
  /\ result.tradingSignals.buySignal
  /\ ~WithoutFundamentals.tradingSignals.buySignal

----------------------------------------------------------------------------
(* Claims about the callers' arrays, under SpecFrame *)

(* C16: no core function mutates its input arrays: after
   calculateDescriptiveStats, calculateVaR, calculateCVaR,
   calculateMaxDrawdown, identifySupportResistance or
   performQuantitativeAnalysis returns, the caller's array has the same
   elements in the same order as before the call. *)
C16_InputArraysKept ==
  (pc = "done" /\ fn \in FrameCalls) => result.after = result.before

(* a sorting function has returned on an array of at least 20 numbers that
   was not in ascending order, with the least of them as its minimum *)
C16_Witness ==
  /\ Applied("calculateDescriptiveStats")
  /\ Len(result.before) >= 20
  /\ result.before # SortAsc(result.before)
  /\ result.value.min = SortAsc(result.before)[1]
  /\ result.after = result.before

----------------------------------------------------------------------------
(* Claims about the route, under SpecRoute *)

(* the handler holds a quantAnalysis that performQuantitativeAnalysis has
   returned and has not responded yet *)
AfterReturn == pc \in {"analysed", "symbol", "named"}

(* the quantAnalysis without its symbol and name *)
Anonymous(quantAnalysis) == [quantAnalysis EXCEPT !.symbol = "", !.name = ""]

(* C17, as stated: a QuantitativeAnalysis object is never modified after
   performQuantitativeAnalysis has returned it; every field, symbol and name
   included, keeps at every later point of the request the value it had when
   the function returned. *)
C17_NeverModified == [][AfterReturn => result' = result]_vars

(* C17, amended: after performQuantitativeAnalysis has returned the object,
   the route assigns symbol and then name, once each; every other field
   keeps the value it had when the function returned, symbol keeps the value
   the route gave it, and nothing changes once name is assigned. *)
C17_OnlyIdentityAssigned ==
  [][AfterReturn =>
       /\ Anonymous(result') = Anonymous(result)
       /\ pc # "analysed" => result'.symbol = result.symbol
       /\ pc = "named" => result' = result]_vars

(* the route has responded with an object whose symbol and name it assigned
   after the function returned them empty, the name falling back to the
   symbol *)
C17_Witness ==
  /\ pc = "responded"
  /\ response.success
  /\ body.name = ""
  /\ response.quantAnalysis.symbol = "BTC"
  /\ response.quantAnalysis.name = "BTC"
  /\ Anonymous(response.quantAnalysis)
       = Anonymous(performQuantitativeAnalysis(priceDataArg, financialMetricsArg,
                                                body.assetType))

----------------------------------------------------------------------------
(* Claims about the price analysis, under SpecChange *)

(* (now - then) / then * 100 *)
PercentChange(now, then) == Mul(Div(Sub(now, then), then), Num(100))

(* the percentage change over the last `back` samples, 0 on a shorter series *)
PercentChangeOver(back) ==
  IF Len(priceDataArg) >= back
  THEN PercentChange(Num(priceDataArg[Len(priceDataArg)].price),
                     Num(priceDataArg[Len(priceDataArg) - back + 1].price))
  ELSE Num(0)

(* C18: priceChange7d, priceChange30d, priceChange90d and priceChange1y are
   period-over-period percentage changes, relative to the price at the start
   of the period, and are 0 when the series is shorter than the period. *)
C18_PercentageChanges ==
  Returned =>
    /\ result.priceAnalysis.priceChange7d = PercentChangeOver(7)
    /\ result.priceAnalysis.priceChange30d = PercentChangeOver(30)
    /\ result.priceAnalysis.priceChange90d = PercentChangeOver(90)
    /\ result.priceAnalysis.priceChange1y = PercentChangeOver(252)

----------------------------------------------------------------------------
(* Claims about calculateCVaR, under SpecStat *)

(* the mean of the absolute values of a non-empty series *)
MeanOfAbsolutes(tail) == Div(Sum([i \in 1..Len(tail) |-> Abs(tail[i])]), Num(Len(tail)))

(* the sorted returns at indices 0..floor((1 - c) * n), c = 0.95 *)
LeftTail(returns) == SubSeq(SortAsc(returns), 1, TailIndex(Len(returns), 95) + 1)

(* C19: calculateCVaR(returns, c) equals the mean of the absolute values of
   the sorted returns at indices 0..floor((1 - c) * n) inclusive, for every
   non-empty return series, tails of mixed sign included; it is 0 for the
   empty series. *)
C19_CVaRMeanOfAbsolutes ==
  Applied("calculateCVaR") =>
    result = IF Len(seriesArg) = 0 THEN Num(0)
             ELSE MeanOfAbsolutes(LeftTail(Hundredths(seriesArg)))

----------------------------------------------------------------------------
(* Claims about the mode, under SpecMode *)

(* the values of seriesArg, rounded to 2 decimals *)
RoundedArg == [i \in 1..Len(seriesArg) |-> RoundToCents(Rat(seriesArg[i], 400))]

(* the highest count of a rounded value *)
HighestFrequency ==
  CHOOSE c \in 1..Len(seriesArg) :
    /\ \E i \in 1..Len(seriesArg) : Frequency(RoundedArg, RoundedArg[i]) = c
    /\ \A i \in 1..Len(seriesArg) : Frequency(RoundedArg, RoundedArg[i]) <= c

(* the first key of the scan that has the highest count *)
FirstMostFrequentKey ==
  LET keys == FrequencyKeys(RoundedArg)
  IN keys[CHOOSE i \in 1..Len(keys) :
            /\ Frequency(RoundedArg, keys[i]) = HighestFrequency
            /\ \A j \in 1..(i - 1) : Frequency(RoundedArg, keys[j]) < HighestFrequency]

(* C20: in calculateDescriptiveStats the values are rounded to 2 decimals
   before counting, and when several rounded values share the highest
   frequency the mode is the one whose key is encountered first in the
   frequency scan. *)
C20_ModeFirstOfTies ==
  (Applied("calculateDescriptiveStats") /\ Len(seriesArg) > 0) =>
     result.mode = FirstMostFrequentKey

----------------------------------------------------------------------------
(* Claims about the drawdown pass, under SpecStat *)

AllPositive == \A i \in 1..Len(seriesArg) : seriesArg[i] > 0

(* the highest price before observation i (1-based, i >= 2) *)
PeakBefore(i) ==
  CHOOSE m \in {seriesArg[j] : j \in 1..(i - 1)} :
    \A j \in 1..(i - 1) : seriesArg[j] <= m

(* observation i is below the running peak *)
BelowPeak(i) == i >= 2 /\ seriesArg[i] < PeakBefore(i)

BelowPeakIndices == {i \in 2..Len(seriesArg) : BelowPeak(i)}

(* (peak - price) / peak at observation i *)
DrawdownSample(i) == Rat(PeakBefore(i) - seriesArg[i], PeakBefore(i))

(* C21: calculateMaxDrawdown records a drawdown sample (peak - price)/peak
   exactly for the observations below the running peak; maxDrawdown is the
   maximum of those samples, averageDrawdown their mean (0 if none), and
   currentDrawdown the sample at the final observation (0 if the series
   ends at a new high).  Stated for series of 2 or more positive prices. *)
C21_SamplesBelowPeak ==
  (Applied("calculateMaxDrawdown") /\ Len(seriesArg) >= 2 /\ AllPositive) =>
     /\ \A i \in BelowPeakIndices : Le(DrawdownSample(i), result.maxDrawdown)
     /\ IF BelowPeakIndices = {} THEN result.maxDrawdown = Num(0)
        ELSE \E i \in BelowPeakIndices : DrawdownSample(i) = result.maxDrawdown
     /\ result.averageDrawdown =
          IF BelowPeakIndices = {} THEN Num(0)
          ELSE Div(Sum([i \in 1..Len(seriesArg) |->
                          IF BelowPeak(i) THEN DrawdownSample(i) ELSE Num(0)]),
                   Num(Cardinality(BelowPeakIndices)))
     /\ result.currentDrawdown =
          IF BelowPeak(Len(seriesArg)) THEN DrawdownSample(Len(seriesArg)) ELSE Num(0)

(* observation q (1-based) set a new peak: the first, or above all before *)
SetsPeak(q) == q = 1 \/ seriesArg[q] > PeakBefore(q)

(* the observation that ends the episode of the peak set at q: the next new
   peak, or the last observation *)
EpisodeEnd(q) ==
  IF \E j \in (q + 1)..Len(seriesArg) : seriesArg[j] > seriesArg[q]
  THEN CHOOSE j \in (q + 1)..Len(seriesArg) :
         /\ seriesArg[j] > seriesArg[q]
         /\ \A k \in (q + 1)..(j - 1) : seriesArg[k] <= seriesArg[q]
  ELSE Len(seriesArg)

(* the peaks after which the price fell below them before the next peak *)
EpisodePeaks ==
  {q \in 1..Len(seriesArg) :
     /\ SetsPeak(q)
     /\ \E j \in (q + 1)..EpisodeEnd(q) : seriesArg[j] < seriesArg[q]}

(* C22: maxDrawdownDuration is the longest episode length in steps, an
   episode running from the index of its peak to the index of the next new
   peak, or to the last index if the series ends inside it; it is 0 when
   the price never falls below a running peak.  Stated for series of 2 or
   more positive prices. *)
C22_LongestEpisode ==
  (Applied("calculateMaxDrawdown") /\ Len(seriesArg) >= 2 /\ AllPositive) =>
     /\ \A q \in EpisodePeaks : EpisodeEnd(q) - q <= result.maxDrawdownDuration
     /\ IF EpisodePeaks = {} THEN result.maxDrawdownDuration = 0
        ELSE \E q \in EpisodePeaks : EpisodeEnd(q) - q = result.maxDrawdownDuration

----------------------------------------------------------------------------
(* Claims about identifySupportResistance, under SpecFrame *)

(* floor(n / 10) *)
LevelWindow == Len(seriesArg) \div 10

(* the 1-based places of the indices i with window <= i < n - window *)
InnerPlaces == (LevelWindow + 1)..(Len(seriesArg) - LevelWindow)

(* the price at place p is the least (greatest) of prices[i-window..i+window] *)
LeastAround(p) ==
  \A q \in (p - LevelWindow)..(p + LevelWindow) : seriesArg[p] <= seriesArg[q]

GreatestAround(p) ==
  \A q \in (p - LevelWindow)..(p + LevelWindow) : seriesArg[p] >= seriesArg[q]

(* at most 5 levels, each strictly before the next in the given order *)
StrictlyOrdered(levels, Before(_, _)) ==
  /\ Len(levels) <= 5
  /\ \A i \in 1..(Len(levels) - 1) : Before(levels[i], levels[i + 1])

(* C23: identifySupportResistance returns two empty lists for fewer than 20
   prices; otherwise, with window = floor(n/10), a returned support
   (resistance) level is the price at some index i, window <= i < n - window,
   that equals the minimum (maximum) of prices[i-window..i+window]; each
   list has no duplicates and at most 5 entries, supports ascending and
   resistances descending. *)
C23_SupportResistanceLevels ==
  Applied("identifySupportResistance") =>
    IF Len(seriesArg) < 20
    THEN result.value = [supportLevels |-> <<>>, resistanceLevels |-> <<>>]
    ELSE /\ \A k \in 1..Len(result.value.supportLevels) :
              \E p \in InnerPlaces :
                 /\ result.value.supportLevels[k] = Num(seriesArg[p])
                 /\ LeastAround(p)
         /\ \A k \in 1..Len(result.value.resistanceLevels) :
              \E p \in InnerPlaces :
                 /\ result.value.resistanceLevels[k] = Num(seriesArg[p])
                 /\ GreatestAround(p)
         /\ StrictlyOrdered(result.value.supportLevels, Lt)
         /\ StrictlyOrdered(result.value.resistanceLevels, Gt)

(* a series of 20 or more prices with more than 5 different local minima,
   of which 5 were returned, and more than one resistance *)
C23_Witness ==
  /\ Applied("identifySupportResistance")
  /\ Len(seriesArg) >= 20
  /\ Cardinality({seriesArg[p] : p \in {q \in InnerPlaces : LeastAround(q)}}) > 5
  /\ Len(result.value.supportLevels) = 5
  /\ Len(result.value.resistanceLevels) > 1

----------------------------------------------------------------------------
(* Claims about the trend on histories shorter than 200 samples, under SpecInd *)

(* C24: for every history of 50 to 199 samples calculateIndicators returns
   trend "neutral": sma200 falls back to the last price, so neither
   sma20 > sma50 > sma200 with price > sma20 nor its mirror can hold, and
   the trend rule and the ADX rule, which vote only on a bullish or bearish
   trend, add no vote. *)
C24_MidHistoryNeutral ==
  (Calculated /\ Len(priceDataArg) >= 50 /\ Len(priceDataArg) < 200) =>
     /\ result.sma200 = Num(priceDataArg[Len(priceDataArg)].price)
     /\ result.trend = "neutral"

(* a rising history of 50 or more samples: the price is above the 20-day
   average and that above the 50-day one, and the trend is neutral *)
C24_Witness ==
  /\ Calculated
  /\ Len(priceDataArg) >= 50
  /\ Gt(Num(priceDataArg[Len(priceDataArg)].price), result.sma20)
  /\ Gt(result.sma20, result.sma50)
  /\ result.trend = "neutral"

----------------------------------------------------------------------------
(* Claims about the MACD line, under SpecInd *)

(* C25: calculateMACD returns signal equal to value and histogram 0, the
   one-point EMA(9) falling back to its single value; so the MACD rule of
   calculateIndicators adds no vote, and a buy or sell score stays below
   maxSignals = 7: the confidence of a buy or a sell is at most 6/7 of 100. *)
C25_MACDNeverVotes ==
  Calculated =>
     /\ result.macd.signal = result.macd.value
     /\ result.macd.histogram = Num(0)
     /\ result.recommendation \in {"buy", "sell"} =>
           Le(result.confidence, Mul(Rat(maxSignals - 1, maxSignals), Num(100)))

(* a history long enough for both averages, a MACD line above 0 with its
   histogram 0, and a recommendation that carries a score *)
C25_Witness ==
  /\ Calculated
  /\ Len(priceDataArg) >= 50
  /\ Gt(result.macd.value, Num(0))
  /\ result.macd.histogram = Num(0)
  /\ result.recommendation \in {"buy", "sell"}

(* Claims about PriceAlerts, under SpecAlerts *)

(* C26: an alert is notified at most once between its creation, or its last
   handleResetAlert, and the next reset, whatever the timer, the mount-time
   check and the price responses do. *)
C26_NotifiedOncePerArming ==
  fn = "PriceAlerts" => \A id \in AlertIds : notifications[id] <= 1

(* Claims about recursivePrompt, under SpecPromptFair *)

TopLevel == fn = "recursivePrompt" /\ maxIterations >= 1

Resolved == pc = "resolved"

(* the uncertainty markers, looked for in the lower-cased text *)
HasUncertaintyMarker(text) ==
  \E marker \in {"uncertain", "inconclusive", "requires further", "limited data"} :
    Includes(ToLowerCase(text.phrase), marker)

(* the latest request failed, or its response has fewer than 100 characters *)
FailedOrShort ==
  \/ apiResponse.kind \in {"rejected", "malformed"}
  \/ apiResponse.kind = "ok" /\ apiResponse.text.chars < MinLength

(* the last entry of the context if there is one and it is not empty *)
HasLastEntry == Len(previousContext) > 0 /\ previousContext[Len(previousContext)].chars > 0

C27_RequestsBounded ==
  TopLevel =>
    /\ pc # "rejected"
    /\ requests <= maxIterations
    /\ Resolved => requests >= 1
    /\ (Resolved /\ FailedOrShort) =>
         IF HasLastEntry THEN result = previousContext[Len(previousContext)]
         ELSE IF apiResponse.kind = "ok" THEN result = EmptyText
         ELSE result = AnalysisUnavailable

C27_RecursesOnlyWhenUncertain ==
  (TopLevel /\ currentIteration' # currentIteration) =>
     /\ currentIteration' = currentIteration + 1
     /\ currentIteration < maxIterations - 1
     /\ apiResponse'.kind = "ok"
     /\ HasUncertaintyMarker(apiResponse'.text)
     /\ previousContext' = Append(previousContext, apiResponse'.text)

C27_NoRequestAfterFailure ==
  (TopLevel /\ FailedOrShort) => requests' = requests

(* C27: a top-level recursivePrompt call with maxIterations >= 1 resolves and
   never rejects; it makes at least 1 and at most maxIterations requests; it
   recurses only when the latest response holds an uncertainty marker and
   currentIteration < maxIterations - 1; after a failed request or a response
   of fewer than 100 characters it returns the last entry of the previous
   context, or the fallback string, and makes no further request. *)
C27_TerminatesWithinBound ==
  /\ []C27_RequestsBounded
  /\ [][C27_RecursesOnlyWhenUncertain]_vars
  /\ [][C27_NoRequestAfterFailure]_vars
  /\ (TopLevel ~> Resolved)

(* three requests were made, two of them recursive, and the call resolved
   with the last text *)
C27_Witness ==
  /\ TopLevel /\ Resolved
  /\ maxIterations = MaxIterations
  /\ requests = MaxIterations
  /\ currentIteration = MaxIterations - 1
  /\ apiResponse.kind = "ok"
  /\ HasUncertaintyMarker(apiResponse.text)
  /\ result = apiResponse.text

(* Claims about the quant-analysis route, under SpecRoute *)

Responded == fn = "POST" /\ pc = "responded"

(* performQuantitativeAnalysis has returned an analysis *)
AnalysisComputed == "tradingSignals" \in DOMAIN result

(* C28: once the analysis is computed the route responds success with the
   quantAnalysis, with aiError and no aiAnalysis when the AI analysis failed;
   with fewer than 2 price samples it responds with a 400 error and
   performQuantitativeAnalysis is not called. *)
C28_AIFailureKeepsAnalysis ==
  Responded =>
    /\ AnalysisComputed =>
         /\ response.status = 200
         /\ response.success
         /\ response.error = ""
         /\ response.quantAnalysis = result
         /\ response.aiError # "" => response.aiAnalysis = ""
    /\ Len(priceDataArg) < 2 =>
         /\ response.status = 400
         /\ ~response.success
         /\ result = NoResult
         /\ (body.symbol # "" /\ body.assetType # "") =>
              response.error = "Insufficient historical data for analysis"
    /\ Len(priceDataArg) >= 2 => AnalysisComputed

(* the AI analysis was asked for and failed *)
C28_Witness ==
  /\ Responded
  /\ AnalysisComputed
  /\ body.includeAI /\ body.geminiApiKey # ""
  /\ response.aiError # ""

(* Claims about calculateMaxDrawdown in double precision, under SpecDouble *)

DoubleOne == Quotient(1, 1)

DoubleLe(x, y) == ~DoubleLt(y, x)

(* C29: for 2 or more positive prices, 0 <= currentDrawdown <= maxDrawdown < 1,
   0 <= averageDrawdown <= maxDrawdown, 0 <= maxDrawdownDuration <= n - 1,
   and maxDrawdown > 0 implies maxDrawdownDuration >= 1. *)
C29_DrawdownBounds ==
  (pc = "done" /\ fn = "calculateMaxDrawdown" /\ Len(seriesArg) >= 2 /\ AllPositive) =>
     /\ DoubleLe(DoubleZero, result.currentDrawdown)
     /\ DoubleLe(result.currentDrawdown, result.maxDrawdown)
     /\ DoubleLt(result.maxDrawdown, DoubleOne)
     /\ DoubleLe(DoubleZero, result.averageDrawdown)
     /\ DoubleLe(result.averageDrawdown, result.maxDrawdown)
     /\ result.maxDrawdownDuration >= 0
     /\ result.maxDrawdownDuration <= Len(seriesArg) - 1
     /\ DoubleLt(DoubleZero, result.maxDrawdown) => result.maxDrawdownDuration >= 1

(* Claims about the technicalSignal of performQuantitativeAnalysis, under SpecQuant *)

(* a contribution of +magnitude, -magnitude or 0 *)
Contribution(favourable, adverse, magnitude) ==
  IF favourable THEN magnitude ELSE IF adverse THEN -magnitude ELSE 0

ReportedSlope == result.statisticalAnalysis.linearRegression.slope

SlopeContribution == IF Gt(ReportedSlope, Num(0)) THEN 30 ELSE -30

(* the four contributions that may be 0, from the values the report holds *)
OtherContributions ==
    Contribution(Gt(result.riskMetrics.sharpeRatio, Num(1)),
                 Lt(result.riskMetrics.sharpeRatio, Num(0)), 20)
  + Contribution(Lt(result.riskMetrics.currentDrawdown, Rat(1, 10)),
                 Gt(result.riskMetrics.currentDrawdown, Rat(3, 10)), 20)
  + Contribution(Gt(result.volumeAnalysis.volumeRatio, Rat(12, 10)),
                 Lt(result.volumeAnalysis.volumeRatio, Rat(8, 10)), 20)
  + Contribution(Gt(result.priceAnalysis.priceChangePercent24h, Num(5)),
                 Lt(result.priceAnalysis.priceChangePercent24h, Num(-5)), 10)

(* C30: technicalSignal is the sum of the slope contribution, +30 or -30 and
   never 0, and of four contributions of +-20, +-20, +-20 and +-10 or 0; it
   lies in [-100, 100]; a zero slope contributes -30, as a negative one. *)
C30_TechnicalSignalCapped ==
  Returned =>
    /\ result.tradingSignals.technicalSignal = SlopeContribution + OtherContributions
    /\ result.tradingSignals.technicalSignal - OtherContributions \in {30, -30}
    /\ OtherContributions \in -70..70
    /\ result.tradingSignals.technicalSignal \in -100..100
    /\ ~Gt(ReportedSlope, Num(0)) =>
         result.tradingSignals.technicalSignal - OtherContributions = -30

(* a flat series: the slope is 0 and counts as -30 *)
C30_Witness ==
  /\ Returned
  /\ ReportedSlope = Num(0)
  /\ Len(priceDataArg) >= 3
  /\ result.tradingSignals.technicalSignal - OtherContributions = -30

====
